---------------------------- MODULE Spec2Model ----------------------------
(***************************************************************************)
(* Model of the turn-execution engine of agent-cli (src/src/run.ts):       *)
(* executeCommand's turn state machine, its asynchronous event queue, the  *)
(* line framer, the four harness translators, the session resolver and     *)
(* the completion classifier.                                              *)
(*                                                                         *)
(* Text is modelled as a sequence of symbols.  The JSON text of an object  *)
(* is two symbols, <<key, "}">>, so that a record can be cut in the middle *)
(* by a chunk boundary or by the death of the process; "\n" is the line    *)
(* separator and " " is white space.  Message strings are sequences of     *)
(* word tokens so that trim, pattern test and prefixing are computed.      *)
(***************************************************************************)
EXTENDS Integers, Sequences, FiniteSets, TLC

VARIABLES
  request,            \* the ExecuteCommandRequest: harness, mode, resumeSessionId
  resolvedSessionId,  \* run.ts:629
  completionReason,   \* run.ts:630
  completeEventSeen,  \* run.ts:631
  turnStartedSeen,    \* run.ts:632
  stopRequested,      \* run.ts:633
  stdoutBuffer,       \* run.ts:634
  values,             \* queue buffer, run.ts:107
  waiters,            \* queue waiters, run.ts:108 (indices into nextResults)
  closed,             \* queue closed flag, run.ts:109
  nextResults,        \* the promises returned by iterator.next(), in call order
  offered,            \* observation: every event handed to emit, in order
  child,              \* the ChildProcess: exitCode, signalCode, killed, running
  pipe,               \* stdout text written by the process, not yet delivered
  done,               \* runCommand's done promise
  completed,          \* executeCommand's completed promise
  sessionId,          \* executeCommand's sessionId promise
  log                 \* observation history: counters and ghost records

vars == <<request, resolvedSessionId, completionReason, completeEventSeen,
          turnStartedSeen, stopRequested, stdoutBuffer, values, waiters,
          closed, nextResults, offered, child, pipe, done, completed,
          sessionId, log>>

-----------------------------------------------------------------------------
(* Bounds of the model *)

MaxWrites == 3   \* lines and stderr chunks the process writes in a turn
MaxPipe == 1     \* symbols still in the pipe when the process writes again
MaxQueueOps == 6 \* push, next and close calls made on a queue on its own
MaxMessageLen == 3 \* tokens in a message handed to classifyError
MaxCalls == 2   \* times a function is applied to its own result
MaxEmits == 4   \* emit calls made on a turn state on its own
MaxLines == 2   \* lines of a text delivered in chunks
MaxRecords == 3 \* decoded records handed to the resolver and translators

-----------------------------------------------------------------------------
(* JSON values.  A value is tagged: a string, an object, null, or absent.  *)
(* Every string is a sequence of tokens; Str(a) is the one-token string.   *)

JS(s) == [str |-> s]
JO(r) == [obj |-> r]
JNull == [null |-> TRUE]
Undefined == [undef |-> TRUE]
Str(a) == JS(<<a>>)

IsStr(v) == "str" \in DOMAIN v
IsObj(v) == "obj" \in DOMAIN v

\* asObject(v)?.f  and  obj.f
Prop(v, f) == IF IsObj(v) /\ f \in DOMAIN v.obj THEN v.obj[f] ELSE Undefined

asString(v) == IF IsStr(v) THEN v ELSE Undefined

\* JavaScript truthiness of a string | undefined: defined and not ""
Truthy(v) == IsStr(v) /\ v.str # <<>>

\* a ?? b
Coalesce(a, b) == IF a = Undefined \/ a = JNull THEN b ELSE a

JA(a) == [arr |-> a]
JN(n) == [num |-> n]
IsArr(v) == "arr" \in DOMAIN v
IsNum(v) == "num" \in DOMAIN v

Harnesses == {"claude", "codex", "opencode", "gemini"}

-----------------------------------------------------------------------------
(* Unified events, run.ts:68-76 *)

EvSession(id) == [type |-> "session.started", sessionId |-> id]
EvTurnStarted == [type |-> "turn.started"]
EvText(t) == [type |-> "text.delta", text |-> t]
EvTool(name, input) == [type |-> "tool.use", name |-> name, input |-> input]
EvToolD(name, input, d) ==
  [type |-> "tool.use", name |-> name, input |-> input, displayText |-> d]
EvOutOfTokens(m) == [type |-> "out_of_tokens", message |-> m]
EvError(m) == [type |-> "error", message |-> m]
EvComplete(r) == [type |-> "turn.complete", reason |-> r]
EvStderr(t) == [type |-> "stderr", text |-> t]

-----------------------------------------------------------------------------
(* Completion classifier, run.ts:150-165 *)

WhiteTokens == {" ", "\t"}

RECURSIVE TrimLeft(_)
TrimLeft(s) ==
  IF s # <<>> /\ Head(s) \in WhiteTokens THEN TrimLeft(Tail(s)) ELSE s

RECURSIVE TrimRight(_)
TrimRight(s) ==
  IF s # <<>> /\ s[Len(s)] \in WhiteTokens
    THEN TrimRight(SubSeq(s, 1, Len(s) - 1))
    ELSE s

\* String.prototype.trim
Trim(s) == TrimRight(TrimLeft(s))

\* Tokens that begin with a match of /^out of tokens:/i
PrefixTokens == {"Out of tokens:", "out of tokens:", "OUT OF TOKENS:"}

\* Tokens that contain a match of OUT_OF_TOKENS_PATTERN (case-insensitive)
QuotaTokens ==
  PrefixTokens \cup
  {"out of tokens", "token limit", "usage limit", "insufficient credits",
   "insufficient balance", "exceeded quota", "exceeded your quota",
   "exceeded current quota", "exceeded your current quota", "credit balance",
   "rate limit exceeded", "Rate Limit Exceeded"}

OUT_OF_TOKENS_PATTERN(s) == \E i \in DOMAIN s : s[i] \in QuotaTokens

HasOutOfTokensPrefix(s) == s # <<>> /\ s[1] \in PrefixTokens

\* Mutant of classifyError: the marker is added without looking for it
classifyErrorMutAlwaysPrefixes(message) ==
  LET trimmed == Trim(message) IN
  IF trimmed = <<>>
    THEN [kind |-> "error", message |-> <<"Unknown error">>]
    ELSE IF OUT_OF_TOKENS_PATTERN(trimmed)
      THEN [kind |-> "out_of_tokens",
            message |-> <<"Out of tokens:", " ">> \o trimmed]
      ELSE [kind |-> "error", message |-> trimmed]

\* run.ts:153-165
classifyError(message) ==
  LET trimmed == Trim(message) IN
  IF trimmed = <<>>
    THEN [kind |-> "error", message |-> <<"Unknown error">>]
    ELSE IF OUT_OF_TOKENS_PATTERN(trimmed)
      THEN [kind |-> "out_of_tokens",
            message |-> IF HasOutOfTokensPrefix(trimmed)
                          THEN trimmed
                          ELSE <<"Out of tokens:", " ">> \o trimmed]
      ELSE [kind |-> "error", message |-> trimmed]

\* The pair every failure-terminal record yields (run.ts:316-321 and alike)
ClassifiedEvent(c) ==
  IF c.kind = "out_of_tokens" THEN EvOutOfTokens(c.message) ELSE EvError(c.message)

ClassifiedComplete(c) ==
  EvComplete(IF c.kind = "out_of_tokens" THEN "out_of_tokens" ELSE "error")

\* raw.replace(/-/g, '_').toLowerCase(), token by token
NormalizeToken(t) ==
  CASE t = "step-start" -> "step_start"
    [] t = "STEP_START" -> "step_start"
    [] t = "step-finish" -> "step_finish"
    [] t = "Step-Finish" -> "step_finish"
    [] t = "tool-calls" -> "tool_calls"
    [] t = "TOOL_CALLS" -> "tool_calls"
    [] t = "tool-use" -> "tool_use"
    [] t = "Text" -> "text"
    [] t = "Tool" -> "tool"
    [] t = "Failed" -> "failed"
    [] t = "ABORTED" -> "aborted"
    [] t = "Cancelled" -> "cancelled"
    [] t = "Error" -> "error"
    [] t = "Done" -> "done"
    [] t = "message-complete" -> "message_complete"
    [] t = "response-complete" -> "response_complete"
    [] t = "Stop" -> "stop"
    [] OTHER -> t

normalizeType(raw) ==
  IF ~Truthy(raw)
    THEN Undefined
    ELSE JS([i \in DOMAIN raw.str |-> NormalizeToken(raw.str[i])])

-----------------------------------------------------------------------------
(* The JSON records of the model: JsonOf(key) is the value whose text is   *)
(* <<key, "}">>.                                                            *)

EmptyObj == [k \in {} |-> TRUE]

CodexKeys ==
  {"{thread.started:thread-final", "{thread.started:resume-thread",
   "{thread.started:nothread", "{turn.started", "{turn.completed",
   "{turn.failed:quota", "{turn.failed:boom", "{turn.failed:none",
   "{error:quota", "{error:boom", "{error:nomessage",
   "{item.started:command", "{item.started:other",
   "{item.completed:agent_message", "{item.completed:agent_message_empty",
   "{item.completed:command", "{item.completed:command_noexit",
   "{item.completed:file_change", "{item.completed:mcp",
   "{item.completed:web_search", "{item.completed:reasoning",
   "{item.completed:notype", "{codex:future", "{codex:notype"}

ClaudeKeys ==
  {"{system:init", "{system:other", "{delta:text", "{delta:json",
   "{block_start:tool", "{block_start:task", "{block_start:text",
   "{stream:other", "{assistant:ask", "{assistant:text", "{result:success",
   "{result:quota", "{result:boom", "{result:nomessage", "{user",
   "{claude:notype"}

OpenCodeKeys ==
  {"{step_start", "{step-start:part", "{text:direct", "{text:part",
   "{text:delta", "{text:message", "{text:content", "{text:array",
   "{text:none", "{tool_use", "{tool:top", "{step_finish:stop",
   "{step_finish:tool_calls", "{step_finish:tool-calls",
   "{step_finish:failed", "{step_finish:aborted", "{step_finish:cancelled",
   "{step_finish:none", "{done", "{message-complete", "{oc_error:quota",
   "{oc_error:nested", "{oc_error:none", "{oc:future", "{oc:future_text",
   "{oc:session_only"}

GeminiKeys ==
  {"{init", "{message:assistant", "{message:user", "{message:empty",
   "{g_result:success", "{g_result:quota", "{g_result:message",
   "{g_result:status", "{g_result:nostatus", "{gemini:future"}

\* Objects that occur only nested, and are stringified
NestedKeys == {"{", "{question:q1", "{code:500"}

ObjKeys == CodexKeys \cup ClaudeKeys \cup OpenCodeKeys \cup GeminiKeys \cup NestedKeys

Typed(t) == [type |-> Str(t)]

CodexJson(key) ==
  CASE key = "{thread.started:thread-final" ->
         [type |-> Str("thread.started"), thread_id |-> Str("thread-final")]
    [] key = "{thread.started:resume-thread" ->
         [type |-> Str("thread.started"), thread_id |-> Str("resume-thread")]
    [] key = "{thread.started:nothread" -> Typed("thread.started")
    [] key = "{turn.started" -> Typed("turn.started")
    [] key = "{turn.completed" -> Typed("turn.completed")
    [] key = "{turn.failed:quota" ->
         [type |-> Str("turn.failed"),
          error |-> JO([message |-> JS(<<"You", " ", "exceeded your current quota">>)])]
    [] key = "{turn.failed:boom" ->
         [type |-> Str("turn.failed"), error |-> JS(<<" ", "boom", " ">>)]
    [] key = "{turn.failed:none" -> Typed("turn.failed")
    [] key = "{error:quota" ->
         [type |-> Str("error"), message |-> JS(<<"usage limit", " ", "reached">>)]
    [] key = "{error:boom" ->
         [type |-> Str("error"), message |-> JS(<<"boom">>)]
    [] key = "{error:nomessage" ->
         [type |-> Str("error"), error |-> JO([code |-> JN(500)])]
    [] key = "{item.started:command" ->
         [type |-> Str("item.started"),
          item |-> JO([type |-> Str("command_execution"), command |-> Str("ls")])]
    [] key = "{item.started:other" ->
         [type |-> Str("item.started"), item |-> JO([type |-> Str("reasoning")])]
    [] key = "{item.completed:agent_message" ->
         [type |-> Str("item.completed"),
          item |-> JO([type |-> Str("agent_message"), text |-> Str("hello")])]
    [] key = "{item.completed:agent_message_empty" ->
         [type |-> Str("item.completed"),
          item |-> JO([type |-> Str("agent_message"), text |-> JS(<<>>)])]
    [] key = "{item.completed:command" ->
         [type |-> Str("item.completed"),
          item |-> JO([type |-> Str("command_execution"), command |-> Str("ls"),
                       exit_code |-> JN(0)])]
    [] key = "{item.completed:command_noexit" ->
         [type |-> Str("item.completed"),
          item |-> JO([type |-> Str("command_execution")])]
    [] key = "{item.completed:file_change" ->
         [type |-> Str("item.completed"),
          item |-> JO([type |-> Str("file_change"), changes |-> JA(<<Str("a.ts")>>)])]
    [] key = "{item.completed:mcp" ->
         [type |-> Str("item.completed"),
          item |-> JO([type |-> Str("mcp_tool_call"), name |-> Str("search")])]
    [] key = "{item.completed:web_search" ->
         [type |-> Str("item.completed"), item |-> JO([type |-> Str("web_search")])]
    [] key = "{item.completed:reasoning" ->
         [type |-> Str("item.completed"), item |-> JO([type |-> Str("reasoning")])]
    [] key = "{item.completed:notype" ->
         [type |-> Str("item.completed"), item |-> JO(EmptyObj)]
    [] key = "{codex:future" -> Typed("future.event")
    [] key = "{codex:notype" -> [text |-> Str("hello")]

ClaudeJson(key) ==
  CASE key = "{system:init" ->
         [type |-> Str("system"), subtype |-> Str("init"),
          session_id |-> Str("thread-final")]
    [] key = "{system:other" ->
         [type |-> Str("system"), subtype |-> Str("status"),
          sessionId |-> Str("resume-thread")]
    [] key = "{delta:text" ->
         [type |-> Str("stream_event"),
          event |-> JO([type |-> Str("content_block_delta"),
                        delta |-> JO([type |-> Str("text_delta"), text |-> Str("hello")])])]
    [] key = "{delta:json" ->
         [type |-> Str("stream_event"),
          event |-> JO([type |-> Str("content_block_delta"),
                        delta |-> JO([type |-> Str("input_json_delta"),
                                      partial_json |-> Str("{")])])]
    [] key = "{block_start:tool" ->
         [type |-> Str("stream_event"),
          event |-> JO([type |-> Str("content_block_start"),
                        content_block |-> JO([type |-> Str("tool_use"),
                                              name |-> Str("Bash"), id |-> Str("b1")])])]
    [] key = "{block_start:task" ->
         [type |-> Str("stream_event"),
          event |-> JO([type |-> Str("content_block_start"),
                        content_block |-> JO([type |-> Str("tool_use"),
                                              name |-> Str("Task")])])]
    [] key = "{block_start:text" ->
         [type |-> Str("stream_event"),
          event |-> JO([type |-> Str("content_block_start"),
                        content_block |-> JO([type |-> Str("text")])])]
    [] key = "{stream:other" ->
         [type |-> Str("stream_event"), event |-> JO([type |-> Str("message_stop")])]
    [] key = "{assistant:ask" ->
         [type |-> Str("assistant"),
          message |-> JO([content |-> JA(<<
             JO([type |-> Str("text"), text |-> Str("hello")]),
             JO([type |-> Str("tool_use"), name |-> Str("AskUserQuestion"),
                 input |-> JO([question |-> Str("q1")])])>>)])]
    [] key = "{assistant:text" ->
         [type |-> Str("assistant"),
          message |-> JO([content |-> JA(<<
             JO([type |-> Str("text"), text |-> Str("hello")])>>)])]
    [] key = "{result:success" ->
         [type |-> Str("result"), subtype |-> Str("success"), result |-> Str("hello")]
    [] key = "{result:quota" ->
         [type |-> Str("result"), subtype |-> Str("error_during_execution"),
          result |-> JS(<<"Out of tokens:", " ", "credit balance", " ", "too low">>)]
    [] key = "{result:boom" ->
         [type |-> Str("result"), subtype |-> Str("error_max_turns"),
          result |-> JS(<<"boom">>)]
    [] key = "{result:nomessage" ->
         [type |-> Str("result"), subtype |-> Str("error_during_execution")]
    [] key = "{user" -> Typed("user")
    [] key = "{claude:notype" -> [text |-> Str("hello")]

OpenCodeJson(key) ==
  CASE key = "{step_start" ->
         [type |-> Str("step_start"), sessionID |-> Str("thread-final")]
    [] key = "{step-start:part" ->
         [part |-> JO([type |-> Str("step-start"), sessionID |-> Str("resume-thread")])]
    [] key = "{text:direct" -> [type |-> Str("text"), text |-> Str("hello")]
    [] key = "{text:part" ->
         [type |-> Str("Text"), part |-> JO([text |-> Str("hello")])]
    [] key = "{text:delta" ->
         [type |-> Str("text"), part |-> JO([delta |-> JO([text |-> Str("hello")])])]
    [] key = "{text:message" ->
         [type |-> Str("text"), message |-> JO([content |-> Str("hello")])]
    [] key = "{text:content" ->
         [type |-> Str("text"), message |-> JO([text |-> Str("hello")])]
    [] key = "{text:array" ->
         [type |-> Str("text"),
          message |-> JO([content |-> JA(<<JO([text |-> Str("hel")]),
                                           JO([type |-> Str("image")]),
                                           JO([text |-> Str("lo")])>>)])]
    [] key = "{text:none" -> Typed("text")
    [] key = "{tool_use" ->
         [type |-> Str("tool_use"),
          part |-> JO([tool |-> Str("bash"),
                       state |-> JO([input |-> JO([command |-> Str("ls")])])])]
    [] key = "{tool:top" -> [type |-> Str("Tool"), tool |-> Str("read")]
    [] key = "{step_finish:stop" ->
         [type |-> Str("step_finish"), part |-> JO([reason |-> Str("stop")])]
    [] key = "{step_finish:tool_calls" ->
         [type |-> Str("step_finish"), part |-> JO([reason |-> Str("tool_calls")])]
    [] key = "{step_finish:tool-calls" ->
         [type |-> Str("Step-Finish"), reason |-> Str("tool-calls")]
    [] key = "{step_finish:failed" ->
         [type |-> Str("step_finish"), part |-> JO([reason |-> Str("Failed")])]
    [] key = "{step_finish:aborted" ->
         [type |-> Str("step_finish"), reason |-> Str("ABORTED")]
    [] key = "{step_finish:cancelled" ->
         [part |-> JO([type |-> Str("step-finish"), reason |-> Str("Cancelled")])]
    [] key = "{step_finish:none" -> Typed("step_finish")
    [] key = "{done" -> Typed("Done")
    [] key = "{message-complete" -> Typed("message-complete")
    [] key = "{oc_error:quota" ->
         [type |-> Str("error"), message |-> JS(<<"insufficient credits">>)]
    [] key = "{oc_error:nested" ->
         [type |-> Str("error"), error |-> JO([message |-> JS(<<"boom">>)])]
    [] key = "{oc_error:none" -> Typed("Error")
    [] key = "{oc:future" -> [type |-> Str("future_event"), session_id |-> Str("thread-final")]
    [] key = "{oc:future_text" -> [type |-> Str("future_event"), text |-> Str("hello")]
    [] key = "{oc:session_only" -> [sessionId |-> Str("resume-thread")]

GeminiJson(key) ==
  CASE key = "{init" -> [type |-> Str("init"), session_id |-> Str("thread-final")]
    [] key = "{message:assistant" ->
         [type |-> Str("message"), role |-> Str("assistant"), content |-> Str("hello")]
    [] key = "{message:user" ->
         [type |-> Str("message"), role |-> Str("user"), content |-> Str("hello")]
    [] key = "{message:empty" ->
         [type |-> Str("message"), role |-> Str("assistant"), content |-> JS(<<>>)]
    [] key = "{g_result:success" -> [type |-> Str("result"), status |-> Str("success")]
    [] key = "{g_result:quota" ->
         [type |-> Str("result"), status |-> Str("error"),
          error |-> JS(<<"rate limit exceeded">>)]
    [] key = "{g_result:message" ->
         [type |-> Str("result"), status |-> Str("error"),
          message |-> JS(<<"unexpected token at line 4">>)]
    [] key = "{g_result:status" -> [type |-> Str("result"), status |-> Str("failed")]
    [] key = "{g_result:nostatus" -> Typed("result")
    [] key = "{gemini:future" -> Typed("future_event")

NestedJson(key) ==
  CASE key = "{" -> EmptyObj
    [] key = "{question:q1" -> [question |-> Str("q1")]
    [] key = "{code:500" -> [code |-> JN(500)]

JsonOf(key) ==
  JO(CASE key \in CodexKeys -> CodexJson(key)
       [] key \in ClaudeKeys -> ClaudeJson(key)
       [] key \in OpenCodeKeys -> OpenCodeJson(key)
       [] key \in GeminiKeys -> GeminiJson(key)
       [] key \in NestedKeys -> NestedJson(key))

\* JSON.stringify, on the values the code stringifies
Stringify(v) ==
  IF IsStr(v)
    THEN <<"\"">> \o v.str \o <<"\"">>
    ELSE IF \E k \in ObjKeys : JsonOf(k) = v
      THEN <<CHOOSE k \in ObjKeys : JsonOf(k) = v, "}">>
      ELSE <<"{...}">>

\* JSON.parse: the text of an object is <<key, "}">>, the text of null is
\* <<"null">>; anything else (a truncated or garbled text) is a SyntaxError.
ParseError == [syntaxError |-> TRUE]

\* The text records whose text is written out: the text of the value is
\* <<key>> \o characters \o <<"}">>, the characters being outside ASCII
TextKeys ==
  {"{item.completed:agent_message:", "{delta:text:", "{text:direct:",
   "{message:assistant:"}

WideChars == {"U+00E9", "U+FFFD"}

TextJson(key, chars) ==
  CASE key = "{item.completed:agent_message:" ->
         JO([type |-> Str("item.completed"),
             item |-> JO([type |-> Str("agent_message"), text |-> JS(chars)])])
    [] key = "{delta:text:" ->
         JO([type |-> Str("stream_event"),
             event |-> JO([type |-> Str("content_block_delta"),
                           delta |-> JO([type |-> Str("text_delta"),
                                         text |-> JS(chars)])])])
    [] key = "{text:direct:" -> JO([type |-> Str("text"), text |-> JS(chars)])
    [] key = "{message:assistant:" ->
         JO([type |-> Str("message"), role |-> Str("assistant"),
             content |-> JS(chars)])

JSONparse(text) ==
  IF Len(text) = 2 /\ text[1] \in ObjKeys /\ text[2] = "}"
    THEN JsonOf(text[1])
  ELSE IF /\ Len(text) >= 3 /\ text[1] \in TextKeys /\ text[Len(text)] = "}"
          /\ \A i \in 2..(Len(text) - 1) : text[i] \in WideChars
    THEN TextJson(text[1], SubSeq(text, 2, Len(text) - 1))
  ELSE IF text = <<"null">> THEN JNull ELSE ParseError

-----------------------------------------------------------------------------
(* Session resolver, run.ts:219-244 *)

captureSessionIdFromJson(harness, json) ==
  IF ~IsObj(json) THEN Undefined
  ELSE IF harness = "codex" /\ Prop(json, "type") = Str("thread.started")
    THEN asString(Prop(json, "thread_id"))
  ELSE IF harness = "opencode"
    THEN LET part == Prop(json, "part")
             candidate ==
               Coalesce(Prop(json, "sessionID"),
               Coalesce(Prop(json, "sessionId"),
               Coalesce(Prop(json, "session_id"),
               Coalesce(Prop(part, "sessionID"),
               Coalesce(Prop(part, "sessionId"), Prop(part, "session_id"))))))
         IN asString(candidate)
  ELSE IF harness = "claude"
    THEN Coalesce(asString(Prop(json, "session_id")), asString(Prop(json, "sessionId")))
  ELSE Undefined

-----------------------------------------------------------------------------
(* Harness translators, run.ts:246-562 *)

\* the first AskUserQuestion tool_use block of an assistant content array
RECURSIVE AskUserQuestionIn(_)
AskUserQuestionIn(content) ==
  IF content = <<>> THEN Undefined
  ELSE LET block == Head(content) IN
       IF asString(Prop(block, "type")) = Str("tool_use")
          /\ asString(Prop(block, "name")) = Str("AskUserQuestion")
         THEN block
         ELSE AskUserQuestionIn(Tail(content))

parseClaude(json) ==
  IF ~IsObj(json) THEN <<EvError(<<"Claude emitted non-object JSON">>)>>
  ELSE
  LET type == asString(Prop(json, "type")) IN
  IF type = Str("system") /\ asString(Prop(json, "subtype")) = Str("init")
    THEN <<EvTurnStarted>>
  ELSE IF type = Str("stream_event")
    THEN LET event == Prop(json, "event")
             eventType == asString(Prop(event, "type"))
         IN IF eventType = Str("content_block_delta")
              THEN LET delta == Prop(event, "delta") IN
                   IF asString(Prop(delta, "type")) = Str("text_delta")
                      /\ Truthy(asString(Prop(delta, "text")))
                     THEN <<EvText(Prop(delta, "text").str)>>
                     ELSE <<>>
            ELSE IF eventType = Str("content_block_start")
              THEN LET contentBlock == Prop(event, "content_block") IN
                   IF asString(Prop(contentBlock, "type")) = Str("tool_use")
                     THEN LET nameV == asString(Prop(contentBlock, "name"))
                              name == IF IsStr(nameV) THEN nameV.str ELSE <<"tool">>
                              blockId == asString(Prop(contentBlock, "id"))
                              input == IF Truthy(blockId)
                                         THEN [_blockId |-> blockId.str]
                                         ELSE EmptyObj
                          IN IF name = <<"Task">> \/ name = <<"AskUserQuestion">>
                               THEN <<EvTool(name, input)>>
                               ELSE <<EvToolD(name, input, name \o <<"\n">>)>>
                     ELSE <<>>
            ELSE <<>>
  ELSE IF type = Str("assistant")
    THEN LET content == Prop(Prop(json, "message"), "content") IN
         IF IsArr(content) /\ AskUserQuestionIn(content.arr) # Undefined
           THEN LET block == AskUserQuestionIn(content.arr)
                    inputV == Prop(block, "input")
                    input == IF IsObj(inputV) THEN inputV ELSE JO(EmptyObj)
                IN <<EvText(<<"\n<!--ask_user_question:">> \o Stringify(input)
                            \o <<"-->\n">>)>>
           ELSE <<>>
  ELSE IF type = Str("result")
    THEN IF asString(Prop(json, "subtype")) = Str("success")
           THEN <<EvComplete("success")>>
           ELSE LET resultV == asString(Prop(json, "result"))
                    message == IF IsStr(resultV) THEN resultV.str
                               ELSE <<"Claude returned an error">>
                    classified == classifyError(message)
                IN <<ClassifiedEvent(classified), ClassifiedComplete(classified)>>
  ELSE <<>>

parseCodex(json) ==
  IF ~IsObj(json) THEN <<EvError(<<"Codex emitted non-object JSON">>)>>
  ELSE
  LET type == asString(Prop(json, "type")) IN
  IF ~Truthy(type) THEN <<>>
  ELSE IF type = Str("thread.started") THEN <<>>
  ELSE IF type = Str("turn.started") THEN <<EvTurnStarted>>
  ELSE IF type = Str("turn.completed") THEN <<EvComplete("success")>>
  ELSE IF type = Str("turn.failed")
    THEN LET rawErr == Prop(json, "error")
             message ==
               IF IsStr(rawErr) THEN rawErr.str
               ELSE IF IsStr(asString(Prop(rawErr, "message")))
                 THEN Prop(rawErr, "message").str
               ELSE Stringify(Coalesce(rawErr, Str("Unknown error")))
             classified == classifyError(message)
         IN <<ClassifiedEvent(classified), ClassifiedComplete(classified)>>
  ELSE IF type = Str("error")
    THEN LET messageV == asString(Prop(json, "message"))
             classified == classifyError(IF IsStr(messageV) THEN messageV.str
                                         ELSE Stringify(json))
         IN <<ClassifiedEvent(classified)>>
  ELSE IF type = Str("item.started")
    THEN LET item == Prop(json, "item") IN
         IF asString(Prop(item, "type")) = Str("command_execution")
            /\ Truthy(asString(Prop(item, "command")))
           THEN LET command == Prop(item, "command").str IN
                <<EvToolD(<<"shell">>, [command |-> command], command \o <<"\n">>)>>
           ELSE <<>>
  ELSE IF type = Str("item.completed")
    THEN LET item == Prop(json, "item")
             itemType == asString(Prop(item, "type"))
         IN IF ~Truthy(itemType) THEN <<>>
            ELSE IF itemType = Str("agent_message") /\ Truthy(asString(Prop(item, "text")))
              THEN <<EvText(Prop(item, "text").str)>>
            ELSE IF itemType = Str("command_execution")
              THEN LET commandV == asString(Prop(item, "command"))
                       command == IF IsStr(commandV) THEN commandV.str ELSE <<>>
                       exitCode == Prop(item, "exit_code")
                   IN <<EvTool(<<"shell">>,
                               IF IsNum(exitCode)
                                 THEN [command |-> command, exit_code |-> exitCode.num]
                                 ELSE [command |-> command])>>
            ELSE IF itemType = Str("file_change")
              THEN LET changesV == Prop(item, "changes")
                       changes == IF IsArr(changesV) THEN changesV.arr ELSE <<>>
                   IN <<EvTool(<<"file_change">>, [changes |-> changes])>>
            ELSE IF itemType = Str("mcp_tool_call")
              THEN LET nameV == asString(Prop(item, "name")) IN
                   <<EvTool(IF IsStr(nameV) THEN nameV.str ELSE <<"mcp_tool">>, EmptyObj)>>
            ELSE IF itemType = Str("web_search")
              THEN <<EvTool(<<"web_search">>, EmptyObj)>>
            ELSE <<>>
  ELSE <<>>

\* chunks.join('') over the string `text` fields of a content array
RECURSIVE JoinTexts(_)
JoinTexts(content) ==
  IF content = <<>> THEN <<>>
  ELSE LET text == asString(Prop(Head(content), "text")) IN
       (IF Truthy(text) THEN text.str ELSE <<>>) \o JoinTexts(Tail(content))

extractOpenCodeAssistantText(obj) ==
  LET direct == asString(Prop(obj, "text"))
      part == Prop(obj, "part")
      partText == asString(Prop(part, "text"))
      deltaText == asString(Prop(Prop(part, "delta"), "text"))
      message == Prop(obj, "message")
      messageText == Coalesce(asString(Prop(message, "text")),
                              asString(Prop(message, "content")))
      content == Prop(message, "content")
  IN IF Truthy(direct) THEN direct
     ELSE IF Truthy(partText) THEN partText
     ELSE IF Truthy(deltaText) THEN deltaText
     ELSE IF Truthy(messageText) THEN messageText
     ELSE IF IsArr(content) /\ JoinTexts(content.arr) # <<>>
       THEN JS(JoinTexts(content.arr))
     ELSE Undefined

OpenCodeFailureReasons ==
  {"failed", "error", "abort", "aborted", "cancel", "cancelled", "canceled"}

parseOpenCode(json) ==
  IF ~IsObj(json) THEN <<EvError(<<"OpenCode emitted non-object JSON">>)>>
  ELSE
  LET topType == normalizeType(asString(Prop(json, "type")))
      partType == normalizeType(asString(Prop(Prop(json, "part"), "type")))
      eventType == Coalesce(topType, partType)
  IN
  IF eventType = Str("step_start") THEN <<EvTurnStarted>>
  ELSE IF eventType = Str("text")
    THEN LET text == extractOpenCodeAssistantText(json) IN
         IF Truthy(text) THEN <<EvText(text.str)>> ELSE <<>>
  ELSE IF eventType = Str("tool_use") \/ eventType = Str("tool")
    THEN LET part == Prop(json, "part")
             inputV == Prop(Prop(part, "state"), "input")
             input == IF IsObj(inputV) THEN inputV.obj ELSE EmptyObj
             nameV == Coalesce(asString(Prop(part, "tool")), asString(Prop(json, "tool")))
         IN <<EvTool(IF IsStr(nameV) THEN nameV.str ELSE <<"tool">>, input)>>
  ELSE IF eventType = Str("step_finish")
    THEN LET reasonRaw == Coalesce(asString(Prop(Prop(json, "part"), "reason")),
                                   asString(Prop(json, "reason")))
             reason == normalizeType(reasonRaw)
         IN IF reason = Str("tool_calls") THEN <<>>
            ELSE IF \E r \in OpenCodeFailureReasons : reason = Str(r)
              THEN LET classified ==
                         classifyError(<<"OpenCode step failed (">>
                                       \o (IF IsStr(reasonRaw) THEN reasonRaw.str
                                           ELSE <<"unknown">>)
                                       \o <<")">>)
                   IN <<ClassifiedEvent(classified), ClassifiedComplete(classified)>>
              ELSE <<EvComplete("success")>>
  ELSE IF \E t \in {"done", "complete", "message_complete", "response_complete"} :
            eventType = Str(t)
    THEN <<EvComplete("success")>>
  ELSE IF eventType = Str("error")
    THEN LET messageV == Coalesce(asString(Prop(json, "message")),
                                  asString(Prop(Prop(json, "error"), "message")))
             classified == classifyError(IF IsStr(messageV) THEN messageV.str
                                         ELSE <<"OpenCode error">>)
         IN <<ClassifiedEvent(classified)>>
  ELSE LET fallback == extractOpenCodeAssistantText(json) IN
       IF Truthy(fallback) THEN <<EvText(fallback.str)>> ELSE <<>>

parseGemini(json) ==
  IF ~IsObj(json) THEN <<EvError(<<"Gemini emitted non-object JSON">>)>>
  ELSE
  LET type == asString(Prop(json, "type")) IN
  IF type = Str("init") THEN <<EvTurnStarted>>
  ELSE IF type = Str("message")
    THEN IF asString(Prop(json, "role")) = Str("assistant")
            /\ Truthy(asString(Prop(json, "content")))
           THEN <<EvText(Prop(json, "content").str)>>
           ELSE <<>>
  ELSE IF type = Str("result")
    THEN IF asString(Prop(json, "status")) = Str("success")
           THEN <<EvComplete("success")>>
           ELSE LET statusV == Prop(json, "status")
                    messageV == Coalesce(asString(Prop(json, "error")),
                                         asString(Prop(json, "message")))
                    message ==
                      IF IsStr(messageV) THEN messageV.str
                      ELSE <<"Gemini result failed: ">>
                           \o (IF IsStr(statusV) THEN statusV.str
                               ELSE IF statusV = Undefined \/ statusV = JNull
                                 THEN <<"unknown">>
                                 ELSE <<"[object]">>)
                    classified == classifyError(message)
                IN <<ClassifiedEvent(classified), ClassifiedComplete(classified)>>
  ELSE <<>>

\* Mutant of parseJsonEvent: a record the translator makes nothing of is
\* reported as an error
parseJsonEventMutUnknownIsError(harness, json) ==
  LET events == CASE harness = "claude" -> parseClaude(json)
                  [] harness = "codex" -> parseCodex(json)
                  [] harness = "opencode" -> parseOpenCode(json)
                  [] harness = "gemini" -> parseGemini(json)
  IN IF events = <<>> THEN <<EvError(<<"Unknown record">>)>> ELSE events

\* Mutant of parseJsonEvent: a classified event on its own is followed by a
\* turn.complete
parseJsonEventMutErrorIsTerminal(harness, json) ==
  LET events == CASE harness = "claude" -> parseClaude(json)
                  [] harness = "codex" -> parseCodex(json)
                  [] harness = "opencode" -> parseOpenCode(json)
                  [] harness = "gemini" -> parseGemini(json)
  IN IF Len(events) = 1 /\ events[1].type \in {"error", "out_of_tokens"}
       THEN events \o <<EvComplete(events[1].type)>>
       ELSE events

\* Mutant of parseJsonEvent: an opencode step_finish that gives no event is
\* taken for the end of the turn
parseJsonEventMutPauseIsTerminal(harness, json) ==
  LET events == CASE harness = "claude" -> parseClaude(json)
                  [] harness = "codex" -> parseCodex(json)
                  [] harness = "opencode" -> parseOpenCode(json)
                  [] harness = "gemini" -> parseGemini(json)
  IN IF /\ harness = "opencode" /\ events = <<>>
        /\ normalizeType(asString(Prop(json, "type"))) = Str("step_finish")
       THEN <<EvComplete("success")>>
       ELSE events

parseJsonEvent(harness, json) ==
  CASE harness = "claude" -> parseClaude(json)
    [] harness = "codex" -> parseCodex(json)
    [] harness = "opencode" -> parseOpenCode(json)
    [] harness = "gemini" -> parseGemini(json)

-----------------------------------------------------------------------------
(* Event queue, run.ts:106-148.  The queue lives in the fields values,     *)
(* waiters, closed of the turn record; nextResults holds the promise each  *)
(* next() call returned, in call order.                                    *)

Pending == [pending |-> TRUE]
ValueResult(v) == [done |-> FALSE, value |-> v]
DoneResult == [done |-> TRUE]

\* Mutant of push: the closed flag is not consulted
pushMutIgnoreClosed(ts, value) ==
  IF ts.waiters # <<>>
    THEN [ts EXCEPT !.waiters = Tail(@),
                    !.nextResults[Head(ts.waiters)] = ValueResult(value)]
    ELSE [ts EXCEPT !.values = Append(@, value)]

\* Mutant of push: the value goes to the consumer that waited last
pushMutLastWaiter(ts, value) ==
  IF ts.closed THEN ts
  ELSE IF ts.waiters # <<>>
    THEN [ts EXCEPT !.waiters = SubSeq(@, 1, Len(@) - 1),
                    !.nextResults[ts.waiters[Len(ts.waiters)]] = ValueResult(value)]
    ELSE [ts EXCEPT !.values = Append(@, value)]

\* run.ts:128-136
push(ts, value) ==
  IF ts.closed THEN ts
  ELSE IF ts.waiters # <<>>
    THEN [ts EXCEPT !.waiters = Tail(@),
                    !.nextResults[Head(ts.waiters)] = ValueResult(value)]
    ELSE [ts EXCEPT !.values = Append(@, value)]

\* Mutant of close: the flag is set but the waiting consumers are not woken
closeMutKeepsWaiters(ts) ==
  IF ts.closed THEN ts ELSE [ts EXCEPT !.closed = TRUE]

\* Mutant of close: the queue is left open
closeMutLeavesOpen(ts) == ts

\* run.ts:138-145
close(ts) ==
  IF ts.closed THEN ts
  ELSE [ts EXCEPT
          !.closed = TRUE,
          !.waiters = <<>>,
          !.nextResults =
             [i \in DOMAIN @ |->
                IF \E j \in DOMAIN ts.waiters : ts.waiters[j] = i
                  THEN DoneResult ELSE @[i]]]

\* Mutant of next: a call that finds the buffer empty waits, closed or not
nextMutWaitsWhenClosed(ts) ==
  IF ts.values # <<>>
    THEN [ts EXCEPT !.nextResults = Append(@, ValueResult(Head(ts.values))),
                    !.values = Tail(@)]
  ELSE [ts EXCEPT !.nextResults = Append(@, Pending),
                  !.waiters = Append(@, Len(ts.nextResults) + 1)]

\* run.ts:115-125: iterator.next(); the promise it returns is appended to
\* nextResults, and a promise left pending is held by a waiter
next(ts) ==
  IF ts.values # <<>>
    THEN [ts EXCEPT !.nextResults = Append(@, ValueResult(Head(ts.values))),
                    !.values = Tail(@)]
  ELSE IF ts.closed
    THEN [ts EXCEPT !.nextResults = Append(@, DoneResult)]
  ELSE [ts EXCEPT !.nextResults = Append(@, Pending),
                  !.waiters = Append(@, Len(ts.nextResults) + 1)]

-----------------------------------------------------------------------------
(* Turn state machine, run.ts:623-792 *)

randomUUID == Str("uuid-1")

initialSessionId(req) == Coalesce(req.resumeSessionId, randomUUID).str

\* Mutant of emit: a second turn.complete is not dropped
emitMutNoTerminalDedup(ts0, event) ==
  LET ts == [ts0 EXCEPT !.offered = Append(@, event)] IN
  IF event.type = "turn.started"
    THEN IF ts.turnStartedSeen THEN ts
         ELSE push([ts EXCEPT !.turnStartedSeen = TRUE], event)
  ELSE IF event.type = "turn.complete"
    THEN push([ts EXCEPT !.completeEventSeen = TRUE,
                         !.completionReason = event.reason], event)
  ELSE IF event.type = "out_of_tokens"
    THEN push([ts EXCEPT !.completionReason = "out_of_tokens"], event)
  ELSE IF event.type = "error" /\ ts.completionReason = "success"
    THEN push([ts EXCEPT !.completionReason = "error"], event)
  ELSE push(ts, event)

\* Mutant of emit: the first turn.complete does not record its reason
emitMutKeepsTrackedReason(ts0, event) ==
  LET ts == [ts0 EXCEPT !.offered = Append(@, event)] IN
  IF event.type = "turn.started"
    THEN IF ts.turnStartedSeen THEN ts
         ELSE push([ts EXCEPT !.turnStartedSeen = TRUE], event)
  ELSE IF event.type = "turn.complete"
    THEN IF ts.completeEventSeen THEN ts
         ELSE push([ts EXCEPT !.completeEventSeen = TRUE], event)
  ELSE IF event.type = "out_of_tokens"
    THEN push([ts EXCEPT !.completionReason = "out_of_tokens"], event)
  ELSE IF event.type = "error" /\ ts.completionReason = "success"
    THEN push([ts EXCEPT !.completionReason = "error"], event)
  ELSE push(ts, event)

\* Mutant of emit: an error event overwrites whatever reason is tracked
emitMutErrorOverwrites(ts0, event) ==
  LET ts == [ts0 EXCEPT !.offered = Append(@, event)] IN
  IF event.type = "turn.started"
    THEN IF ts.turnStartedSeen THEN ts
         ELSE push([ts EXCEPT !.turnStartedSeen = TRUE], event)
  ELSE IF event.type = "turn.complete"
    THEN IF ts.completeEventSeen THEN ts
         ELSE push([ts EXCEPT !.completeEventSeen = TRUE,
                              !.completionReason = event.reason], event)
  ELSE IF event.type = "out_of_tokens"
    THEN push([ts EXCEPT !.completionReason = "out_of_tokens"], event)
  ELSE IF event.type = "error"
    THEN push([ts EXCEPT !.completionReason = "error"], event)
  ELSE push(ts, event)

\* Mutant of emit: a later turn.complete is not delivered but its reason is
\* recorded
emitMutLaterCompleteSetsReason(ts0, event) ==
  LET ts == [ts0 EXCEPT !.offered = Append(@, event)] IN
  IF event.type = "turn.started"
    THEN IF ts.turnStartedSeen THEN ts
         ELSE push([ts EXCEPT !.turnStartedSeen = TRUE], event)
  ELSE IF event.type = "turn.complete"
    THEN IF ts.completeEventSeen
           THEN [ts EXCEPT !.completionReason = event.reason]
           ELSE push([ts EXCEPT !.completeEventSeen = TRUE,
                                !.completionReason = event.reason], event)
  ELSE IF event.type = "out_of_tokens"
    THEN push([ts EXCEPT !.completionReason = "out_of_tokens"], event)
  ELSE IF event.type = "error" /\ ts.completionReason = "success"
    THEN push([ts EXCEPT !.completionReason = "error"], event)
  ELSE push(ts, event)

\* Mutant of emit: a second turn.started is not dropped
emitMutNoStartDedup(ts0, event) ==
  LET ts == [ts0 EXCEPT !.offered = Append(@, event)] IN
  IF event.type = "turn.started"
    THEN push([ts EXCEPT !.turnStartedSeen = TRUE], event)
  ELSE IF event.type = "turn.complete"
    THEN IF ts.completeEventSeen THEN ts
         ELSE push([ts EXCEPT !.completeEventSeen = TRUE,
                              !.completionReason = event.reason], event)
  ELSE IF event.type = "out_of_tokens"
    THEN push([ts EXCEPT !.completionReason = "out_of_tokens"], event)
  ELSE IF event.type = "error" /\ ts.completionReason = "success"
    THEN push([ts EXCEPT !.completionReason = "error"], event)
  ELSE push(ts, event)

\* Mutant of emit: out_of_tokens escalates from success only, like error
emitMutOutOfTokensKeepsError(ts0, event) ==
  LET ts == [ts0 EXCEPT !.offered = Append(@, event)] IN
  IF event.type = "turn.started"
    THEN IF ts.turnStartedSeen THEN ts
         ELSE push([ts EXCEPT !.turnStartedSeen = TRUE], event)
  ELSE IF event.type = "turn.complete"
    THEN IF ts.completeEventSeen THEN ts
         ELSE push([ts EXCEPT !.completeEventSeen = TRUE,
                              !.completionReason = event.reason], event)
  ELSE IF event.type = "out_of_tokens" /\ ts.completionReason = "success"
    THEN push([ts EXCEPT !.completionReason = "out_of_tokens"], event)
  ELSE IF event.type = "error" /\ ts.completionReason = "success"
    THEN push([ts EXCEPT !.completionReason = "error"], event)
  ELSE push(ts, event)

\* run.ts:654-668; offered only records the call
emit(ts0, event) ==
  LET ts == [ts0 EXCEPT !.offered = Append(@, event)] IN
  IF event.type = "turn.started"
    THEN IF ts.turnStartedSeen THEN ts
         ELSE push([ts EXCEPT !.turnStartedSeen = TRUE], event)
  ELSE IF event.type = "turn.complete"
    THEN IF ts.completeEventSeen THEN ts
         ELSE push([ts EXCEPT !.completeEventSeen = TRUE,
                              !.completionReason = event.reason], event)
  ELSE IF event.type = "out_of_tokens"
    THEN push([ts EXCEPT !.completionReason = "out_of_tokens"], event)
  ELSE IF event.type = "error" /\ ts.completionReason = "success"
    THEN push([ts EXCEPT !.completionReason = "error"], event)
  ELSE push(ts, event)

RECURSIVE emitAll(_, _)
emitAll(ts, events) ==
  IF events = <<>> THEN ts ELSE emitAll(emit(ts, Head(events)), Tail(events))

\* Mutant of maybeUpdateSession: the id is overwritten without an event
maybeUpdateSessionMutNoEmit(ts, harness, json) ==
  LET captured == captureSessionIdFromJson(harness, json) IN
  IF Truthy(captured) /\ captured.str # ts.resolvedSessionId
    THEN [ts EXCEPT !.resolvedSessionId = captured.str]
    ELSE ts

\* Mutant of maybeUpdateSession: every record with a session id gives an
\* event, also when the id is the tracked one
maybeUpdateSessionMutEmitsAlways(ts, harness, json) ==
  LET captured == captureSessionIdFromJson(harness, json) IN
  IF Truthy(captured)
    THEN emit([ts EXCEPT !.resolvedSessionId = captured.str],
              EvSession(captured.str))
    ELSE ts

maybeUpdateSession(ts, harness, json) ==
  LET captured == captureSessionIdFromJson(harness, json) IN
  IF Truthy(captured) /\ captured.str # ts.resolvedSessionId
    THEN emit([ts EXCEPT !.resolvedSessionId = captured.str],
              EvSession(captured.str))
    ELSE ts

\* run.ts:705-708 and 738-741: resolve the session, translate, emit
handleJson(ts, harness, json) ==
  emitAll(maybeUpdateSession(ts, harness, json), parseJsonEvent(harness, json))

\* chunk.toString(): the bytes of a chunk decoded as UTF-8 on their own.  A
\* symbol of the pipe is a run of ASCII bytes, which decodes to itself, or
\* one of the two bytes of U+00E9; a byte that has not its partner in the
\* chunk decodes to U+FFFD.
LeadByte == "0xC3"
ContinuationByte == "0xA9"

RECURSIVE toString(_)
toString(chunk) ==
  IF chunk = <<>> THEN <<>>
  ELSE IF Head(chunk) = LeadByte
    THEN IF Len(chunk) >= 2 /\ chunk[2] = ContinuationByte
           THEN <<"U+00E9">> \o toString(SubSeq(chunk, 3, Len(chunk)))
           ELSE <<"U+FFFD">> \o toString(Tail(chunk))
  ELSE IF Head(chunk) = ContinuationByte
    THEN <<"U+FFFD">> \o toString(Tail(chunk))
  ELSE <<Head(chunk)>> \o toString(Tail(chunk))

\* text.split('\n')
RECURSIVE Split(_)
Split(text) ==
  IF \E i \in DOMAIN text : text[i] = "\n"
    THEN LET i == CHOOSE i \in DOMAIN text :
                    text[i] = "\n" /\ \A j \in 1..(i - 1) : text[j] # "\n"
         IN <<SubSeq(text, 1, i - 1)>> \o Split(SubSeq(text, i + 1, Len(text)))
    ELSE <<text>>

ParseFailure(harness) ==
  EvError(<<"Failed to parse ", harness, " JSON: ", "SyntaxError">>)

\* the body of the for loop of onStdout, run.ts:690-709
handleLine(ts, harness, line) ==
  LET trimmed == Trim(line) IN
  IF trimmed = <<>> THEN ts
  ELSE LET json == JSONparse(trimmed) IN
       IF json = ParseError
         THEN emit(ts, ParseFailure(harness))
         ELSE handleJson(ts, harness, json)

\* Mutant of handleLines: the loop ends at the first line that is not JSON
RECURSIVE handleLinesMutStopsAtFailure(_, _, _)
handleLinesMutStopsAtFailure(ts, harness, lines) ==
  IF lines = <<>> THEN ts
  ELSE IF Trim(Head(lines)) # <<>> /\ JSONparse(Trim(Head(lines))) = ParseError
    THEN emit(ts, ParseFailure(harness))
  ELSE handleLinesMutStopsAtFailure(handleLine(ts, harness, Head(lines)),
                                    harness, Tail(lines))

RECURSIVE handleLines(_, _, _)
handleLines(ts, harness, lines) ==
  IF lines = <<>> THEN ts
  ELSE handleLines(handleLine(ts, harness, Head(lines)), harness, Tail(lines))

\* Mutant of onStdout: the fragment held from the chunk before is forgotten
onStdoutMutNoCarry(ts, req, chunk) ==
  LET text == toString(chunk) IN
  IF req.mode = "single-shot"
    THEN IF Len(text) > 0 THEN emit(ts, EvText(text)) ELSE ts
    ELSE LET lines == Split(text)
             complete == SubSeq(lines, 1, Len(lines) - 1)
         IN handleLines([ts EXCEPT !.stdoutBuffer = lines[Len(lines)]],
                        req.harness, complete)

\* Mutant of onStdout: single-shot output goes through the line decoder too
onStdoutMutDecodesSingleShot(ts, req, chunk) ==
  LET text == toString(chunk)
      lines == Split(ts.stdoutBuffer \o text)
      complete == SubSeq(lines, 1, Len(lines) - 1)
  IN handleLines([ts EXCEPT !.stdoutBuffer = lines[Len(lines)]],
                 req.harness, complete)

\* run.ts:678-710; the turn record carries stdoutBuffer
onStdout(ts, req, chunk) ==
  LET text == toString(chunk) IN
  IF req.mode = "single-shot"
    THEN IF Len(text) > 0 THEN emit(ts, EvText(text)) ELSE ts
    ELSE LET lines == Split(ts.stdoutBuffer \o text)
             complete == SubSeq(lines, 1, Len(lines) - 1)
         IN handleLines([ts EXCEPT !.stdoutBuffer = lines[Len(lines)]],
                        req.harness, complete)

\* Mutant of onStderr: the chunk is reported as an error of the turn
onStderrMutIsError(ts, chunk) == emit(ts, EvError(toString(chunk)))

\* run.ts:712-715
onStderr(ts, chunk) == emit(ts, EvStderr(toString(chunk)))

\* Mutant of trailingPass: a fragment that is not JSON is reported like a
\* bad line
trailingPassMutReportsFailure(ts, req) ==
  IF req.mode = "conversation"
    THEN LET trailing == Trim(ts.stdoutBuffer) IN
         IF trailing = <<>> THEN ts
         ELSE IF JSONparse(trailing) # ParseError
           THEN handleJson(ts, req.harness, JSONparse(trailing))
           ELSE emit(ts, ParseFailure(req.harness))
    ELSE ts

\* run.ts:733-746: the last pass over the retained fragment
trailingPass(ts, req) ==
  IF req.mode = "conversation"
    THEN LET trailing == Trim(ts.stdoutBuffer) IN
         IF trailing # <<>> /\ JSONparse(trailing) # ParseError
           THEN handleJson(ts, req.harness, JSONparse(trailing))
           ELSE ts
    ELSE ts

\* Mutant of inferReason: a non-zero exit code is not turned into error
inferReasonMutIgnoresExitCode(ts, stop, exitCode) ==
  IF stop \/ exitCode = JNull THEN "killed" ELSE ts.completionReason

\* Mutant of inferReason: an escalated reason wins over cancellation
inferReasonMutTrackedFirst(ts, stop, exitCode) ==
  IF ts.completionReason # "success" THEN ts.completionReason
  ELSE IF stop \/ exitCode = JNull THEN "killed"
  ELSE IF exitCode # JN(0) THEN "error"
  ELSE ts.completionReason

\* Mutant of inferReason: a non-zero exit code gives error whatever is tracked
inferReasonMutNonZeroIsError(ts, stop, exitCode) ==
  IF stop \/ exitCode = JNull THEN "killed"
  ELSE IF exitCode # JN(0) THEN "error"
  ELSE ts.completionReason

\* run.ts:748-757
inferReason(ts, stop, exitCode) ==
  IF stop \/ exitCode = JNull THEN "killed"
  ELSE IF ts.completionReason = "success" /\ exitCode # JN(0) THEN "error"
  ELSE ts.completionReason

finalReason(ts, stop, exitCode) ==
  IF ts.completeEventSeen THEN ts.completionReason
  ELSE inferReason(ts, stop, exitCode)

\* Mutant of onDone: no turn.complete is synthesised
onDoneMutNoSynthetic(ts, req, stop, exitCode) ==
  LET t1 == trailingPass(ts, req)
      reason == finalReason(t1, stop, exitCode)
  IN [ts |-> close(t1),
      completion |-> [reason |-> reason, exitCode |-> exitCode,
                      sessionId |-> t1.resolvedSessionId]]

\* Mutant of onDone: the completion record takes the session id read
\* before the pass over the retained fragment
onDoneMutStaleSession(ts, req, stop, exitCode) ==
  LET t1 == trailingPass(ts, req)
      reason == finalReason(t1, stop, exitCode)
      t2 == IF t1.completeEventSeen THEN t1 ELSE emit(t1, EvComplete(reason))
  IN [ts |-> close(t2),
      completion |-> [reason |-> reason, exitCode |-> exitCode,
                      sessionId |-> ts.resolvedSessionId]]

\* Mutant of onDone: the reason is inferred before the pass over the
\* retained fragment
onDoneMutInfersFirst(ts, req, stop, exitCode) ==
  LET reason == finalReason(ts, stop, exitCode)
      t1 == IF ts.completeEventSeen THEN ts ELSE emit(ts, EvComplete(reason))
      t2 == trailingPass(t1, req)
  IN [ts |-> close(t2),
      completion |-> [reason |-> reason, exitCode |-> exitCode,
                      sessionId |-> t2.resolvedSessionId]]

\* run.ts:732-767: the fulfilment handler of done; yields the turn record
\* after the handler and the completion record it returns
onDone(ts, req, stop, exitCode) ==
  LET t1 == trailingPass(ts, req)
      reason == finalReason(t1, stop, exitCode)
      t2 == IF t1.completeEventSeen THEN t1 ELSE emit(t1, EvComplete(reason))
  IN [ts |-> close(t2),
      completion |-> [reason |-> reason, exitCode |-> exitCode,
                      sessionId |-> t2.resolvedSessionId]]

\* Mutant of onFail: the queue is closed before the two events are emitted
onFailMutClosesFirst(ts, stop, err) ==
  emit(emit(close(ts), EvError(<<"Process failed: ", err>>)),
       EvComplete(IF stop THEN "killed" ELSE "error"))

\* run.ts:768-777: the rejection handler
onFail(ts, stop, err) ==
  close(emit(emit(ts, EvError(<<"Process failed: ", err>>)),
             EvComplete(IF stop THEN "killed" ELSE "error")))

-----------------------------------------------------------------------------
(* The turn as a state machine *)

Modes == {"conversation", "single-shot"}

Requests ==
  [harness : Harnesses, mode : Modes,
   resumeSessionId : {Undefined, Str("resume-thread")}]

\* The closure state of executeCommand and its queue, as one record
TS ==
  [resolvedSessionId |-> resolvedSessionId,
   completionReason |-> completionReason,
   completeEventSeen |-> completeEventSeen,
   turnStartedSeen |-> turnStartedSeen,
   stdoutBuffer |-> stdoutBuffer,
   values |-> values, waiters |-> waiters, closed |-> closed,
   nextResults |-> nextResults, offered |-> offered]

SetTS(t) ==
  /\ resolvedSessionId' = t.resolvedSessionId
  /\ completionReason' = t.completionReason
  /\ completeEventSeen' = t.completeEventSeen
  /\ turnStartedSeen' = t.turnStartedSeen
  /\ stdoutBuffer' = t.stdoutBuffer
  /\ values' = t.values
  /\ waiters' = t.waiters
  /\ closed' = t.closed
  /\ nextResults' = t.nextResults
  /\ offered' = t.offered

\* run.ts:624-634: the state executeCommand creates
FreshTS(req) ==
  [resolvedSessionId |-> initialSessionId(req),
   completionReason |-> "success",
   completeEventSeen |-> FALSE,
   turnStartedSeen |-> FALSE,
   stdoutBuffer |-> <<>>,
   values |-> <<>>, waiters |-> <<>>, closed |-> FALSE,
   nextResults |-> <<>>, offered |-> <<>>]

\* Mutant of StartedTS: turn.started is left to the agent's own record
StartedTSMutSessionOnly(req) ==
  emit(FreshTS(req), EvSession(initialSessionId(req)))

\* run.ts:728-729: the two events emitted before executeCommand returns
StartedTS(req) ==
  emit(emit(FreshTS(req), EvSession(initialSessionId(req))), EvTurnStarted)

PromisePending == [state |-> "pending"]
Resolved(v) == [state |-> "resolved", value |-> v]
Rejected(err) == [state |-> "rejected", error |-> err]

\* The records the agent process writes in a turn, per harness
TurnKeys(h) ==
  CASE h = "codex" ->
         {"{thread.started:thread-final", "{turn.started",
          "{item.completed:agent_message", "{turn.completed"}
    [] h = "claude" ->
         {"{system:init", "{result:success", "{result:boom"}
    [] h = "opencode" ->
         {"{step_start", "{step_finish:stop", "{oc_error:quota"}
    [] h = "gemini" ->
         {"{init", "{message:assistant", "{g_result:quota"}

\* What one write of the process puts on its standard output
Bodies(req) ==
  IF req.mode = "single-shot"
    THEN {<<"hello">>}
    ELSE {<<k, "}">> : k \in TurnKeys(req.harness)} \cup {<<"garbage">>, <<" ">>}

ExitCodes == {JN(0), JN(7)}

Init ==
  /\ request \in Requests
  /\ resolvedSessionId = StartedTS(request).resolvedSessionId
  /\ completionReason = StartedTS(request).completionReason
  /\ completeEventSeen = StartedTS(request).completeEventSeen
  /\ turnStartedSeen = StartedTS(request).turnStartedSeen
  /\ stdoutBuffer = StartedTS(request).stdoutBuffer
  /\ values = StartedTS(request).values
  /\ waiters = StartedTS(request).waiters
  /\ closed = StartedTS(request).closed
  /\ nextResults = StartedTS(request).nextResults
  /\ offered = StartedTS(request).offered
  /\ stopRequested = FALSE
  /\ child = [handle |-> TRUE, exitCode |-> JNull, signalCode |-> JNull,
              killed |-> FALSE, closeEmitted |-> FALSE]
  /\ pipe = <<>>
  /\ done = PromisePending
  /\ completed = PromisePending
  /\ sessionId = PromisePending
  /\ log = [writes |-> 0, signals |-> 0, open |-> TRUE,
            terminalObserved |-> FALSE, offeredAtSettle |-> 0,
            stopAtSettle |-> FALSE]

\* The agent process writes one line; the last line of a dying process may
\* lack its newline.
ProcWrite ==
  /\ child.handle /\ log.open /\ log.writes < MaxWrites /\ Len(pipe) <= MaxPipe
  /\ \E body \in Bodies(request), terminated \in BOOLEAN :
       /\ pipe' = pipe \o body \o (IF terminated THEN <<"\n">> ELSE <<>>)
       /\ log' = [log EXCEPT !.writes = @ + 1, !.open = terminated]
  /\ UNCHANGED <<request, resolvedSessionId, completionReason, completeEventSeen,
                 turnStartedSeen, stopRequested, stdoutBuffer, values, waiters,
                 closed, nextResults, offered, child, done, completed, sessionId>>

\* child.stdout 'data': the transport delivers the next n symbols as a chunk
StdoutData ==
  /\ ~child.closeEmitted
  /\ \E n \in 0..Len(pipe) :
       /\ SetTS(onStdout(TS, request, SubSeq(pipe, 1, n)))
       /\ pipe' = SubSeq(pipe, n + 1, Len(pipe))
  /\ UNCHANGED <<request, stopRequested, child, done, completed, sessionId, log>>

\* child.stderr 'data'
StderrData ==
  /\ child.handle /\ log.writes < MaxWrites
  /\ SetTS(onStderr(TS, <<"warn">>))
  /\ log' = [log EXCEPT !.writes = @ + 1]
  /\ UNCHANGED <<request, stopRequested, child, pipe, done, completed, sessionId>>

\* child.kill(), as run.ts:788 calls it: with a live handle the signal is
\* sent and killed is set, or the kill fails and the child emits 'error'
\* (run.ts:609: done rejects and the rejection handler of completed runs).
\* Mutant of KillSent: stop() ends the event stream when it sends the signal
KillSentMutClosesQueue ==
  /\ child' = [child EXCEPT !.killed = TRUE]
  /\ log' = [log EXCEPT !.signals = @ + 1]
  /\ SetTS(close(TS))
  /\ UNCHANGED <<done, completed, sessionId>>

KillSent ==
  /\ child' = [child EXCEPT !.killed = TRUE]
  /\ log' = [log EXCEPT !.signals = @ + 1]
  /\ UNCHANGED <<resolvedSessionId, completionReason, completeEventSeen,
                 turnStartedSeen, stdoutBuffer, values, waiters, closed,
                 nextResults, offered, done, completed, sessionId>>

KillFails ==
  /\ done = PromisePending
  /\ done' = Rejected("kill EPERM")
  /\ SetTS(onFail(TS, TRUE, "kill EPERM"))
  /\ sessionId' = Resolved(onFail(TS, TRUE, "kill EPERM").resolvedSessionId)
  /\ completed' = Rejected(done'.error)
  /\ log' = [log EXCEPT !.offeredAtSettle = Len(onFail(TS, TRUE, "kill EPERM").offered),
                       !.stopAtSettle = TRUE]
  /\ UNCHANGED child

NoKill ==
  UNCHANGED <<resolvedSessionId, completionReason, completeEventSeen,
              turnStartedSeen, stdoutBuffer, values, waiters, closed,
              nextResults, offered, done, completed, sessionId, child, log>>

\* Mutant of wantsKill: a child that was signalled before is signalled again
wantsKillMutIgnoresKilled(c) == c.exitCode = JNull

\* run.ts:787: the condition under which stop() calls child.kill()
wantsKill(c) == c.exitCode = JNull /\ ~c.killed

\* run.ts:785-790: stop()
Stop ==
  /\ stopRequested' = TRUE
  /\ IF wantsKill(child)
       THEN IF child.handle THEN KillSent \/ KillFails ELSE NoKill
       ELSE NoKill
  /\ UNCHANGED <<request, pipe>>

\* The process ends with an exit code
ProcExit ==
  /\ child.handle /\ pipe = <<>>
  /\ \E code \in ExitCodes :
       child' = [child EXCEPT !.handle = FALSE, !.exitCode = code]
  /\ UNCHANGED <<request, resolvedSessionId, completionReason, completeEventSeen,
                 turnStartedSeen, stopRequested, stdoutBuffer, values, waiters,
                 closed, nextResults, offered, pipe, done, completed, sessionId,
                 log>>

\* The process is terminated by a signal: exitCode stays null
ProcSignalled ==
  /\ child.handle /\ pipe = <<>>
  /\ child' = [child EXCEPT !.handle = FALSE, !.signalCode = Str("SIGTERM")]
  /\ UNCHANGED <<request, resolvedSessionId, completionReason, completeEventSeen,
                 turnStartedSeen, stopRequested, stdoutBuffer, values, waiters,
                 closed, nextResults, offered, pipe, done, completed, sessionId,
                 log>>

\* child 'close' (run.ts:608) after the process has ended and its output is
\* drained: done resolves and the fulfilment handler of completed runs.
ProcClose ==
  /\ ~child.handle /\ ~child.closeEmitted /\ pipe = <<>>
  /\ child' = [child EXCEPT !.closeEmitted = TRUE]
  /\ IF done = PromisePending
       THEN /\ done' = Resolved(child.exitCode)
            /\ SetTS(onDone(TS, request, stopRequested, child.exitCode).ts)
            /\ sessionId' =
                 Resolved(onDone(TS, request, stopRequested,
                                 child.exitCode).ts.resolvedSessionId)
            /\ completed' =
                 Resolved(onDone(TS, request, stopRequested,
                                 child.exitCode).completion)
            /\ log' = [log EXCEPT
                 !.terminalObserved = trailingPass(TS, request).completeEventSeen,
                 !.stopAtSettle = stopRequested,
                 !.offeredAtSettle =
                    Len(onDone(TS, request, stopRequested, child.exitCode).ts.offered)]
       ELSE UNCHANGED <<done, resolvedSessionId, completionReason,
                        completeEventSeen, turnStartedSeen, stdoutBuffer, values,
                        waiters, closed, nextResults, offered, sessionId,
                        completed, log>>
  /\ UNCHANGED <<request, stopRequested, pipe>>

\* child 'error' (run.ts:609), the process could not be spawned: done
\* rejects and the rejection handler of completed runs.
ProcError ==
  /\ child.handle /\ log.writes = 0 /\ log.signals = 0 /\ done = PromisePending
  /\ child' = [child EXCEPT !.handle = FALSE]
  /\ done' = Rejected("spawn ENOENT")
  /\ SetTS(onFail(TS, stopRequested, "spawn ENOENT"))
  /\ sessionId' = Resolved(onFail(TS, stopRequested, "spawn ENOENT").resolvedSessionId)
  /\ completed' = Rejected(done'.error)
  /\ log' = [log EXCEPT !.offeredAtSettle = Len(onFail(TS, stopRequested, "spawn ENOENT").offered),
                       !.stopAtSettle = stopRequested]
  /\ UNCHANGED <<request, stopRequested, pipe>>

Next ==
  \/ ProcWrite
  \/ StdoutData
  \/ StderrData
  \/ Stop
  \/ ProcExit
  \/ ProcSignalled
  \/ ProcClose
  \/ ProcError

Spec == Init /\ [][Next]_vars

\* The 'close' event of ProcClose, as the child alone sees it
CloseEmitted ==
  /\ ~child.handle /\ ~child.closeEmitted /\ pipe = <<>>
  /\ child' = [child EXCEPT !.closeEmitted = TRUE]

\* Node emits 'close' once the process has ended and its pipes are drained
LiveSpec == Spec /\ WF_child(CloseEmitted)

-----------------------------------------------------------------------------
(* The queue of createAsyncQueue on its own, run.ts:106-148: a producer     *)
(* pushes and closes, a consumer calls next(), in any order.  log records   *)
(* the calls: accepted holds the values pushed while the queue was open,    *)
(* direct and dropped count the pushes that met a waiting consumer or a     *)
(* closed queue, woken the consumers that were waiting at a close.          *)

QueueValues == {EvText(<<"a">>), EvText(<<"b">>)}

\* No turn is running: every variable but log rests at its first value
Idle ==
  /\ request = [harness |-> "codex", mode |-> "conversation",
                resumeSessionId |-> Undefined]
  /\ resolvedSessionId = FreshTS(request).resolvedSessionId
  /\ completionReason = "success"
  /\ completeEventSeen = FALSE
  /\ turnStartedSeen = FALSE
  /\ stdoutBuffer = <<>>
  /\ values = <<>> /\ waiters = <<>> /\ closed = FALSE
  /\ nextResults = <<>>
  /\ offered = <<>>
  /\ stopRequested = FALSE
  /\ child = [handle |-> FALSE, exitCode |-> JNull, signalCode |-> JNull,
              killed |-> FALSE, closeEmitted |-> FALSE]
  /\ pipe = <<>>
  /\ done = PromisePending
  /\ completed = PromisePending
  /\ sessionId = PromisePending

QueueInit ==
  /\ Idle
  /\ log = [ops |-> 0, accepted |-> <<>>, direct |-> 0, dropped |-> 0,
            closes |-> 0, woken |-> 0, last |-> "none"]

QueueRest == UNCHANGED <<request, stopRequested, child, pipe, done, completed, sessionId>>

\* A step that changes log alone
OnlyLog ==
  UNCHANGED <<request, resolvedSessionId, completionReason, completeEventSeen,
              turnStartedSeen, stopRequested, stdoutBuffer, values, waiters,
              closed, nextResults, offered, child, pipe, done, completed,
              sessionId>>

QueuePush ==
  /\ log.ops < MaxQueueOps
  /\ \E v \in QueueValues :
       /\ SetTS(push(TS, v))
       /\ log' = [log EXCEPT
            !.ops = @ + 1, !.last = "push",
            !.accepted = IF closed THEN @ ELSE Append(@, v),
            !.direct = IF ~closed /\ waiters # <<>> THEN @ + 1 ELSE @,
            !.dropped = IF closed THEN @ + 1 ELSE @]
  /\ QueueRest

QueueClose ==
  /\ log.ops < MaxQueueOps
  /\ SetTS(close(TS))
  /\ log' = [log EXCEPT !.ops = @ + 1, !.last = "close", !.closes = @ + 1,
                       !.woken = @ + Len(waiters)]
  /\ QueueRest

QueueNext ==
  /\ log.ops < MaxQueueOps
  /\ SetTS(next(TS))
  /\ log' = [log EXCEPT !.ops = @ + 1, !.last = "next"]
  /\ QueueRest

QueueStep == QueuePush \/ QueueClose \/ QueueNext

SpecQueue == QueueInit /\ [][QueueStep]_vars

-----------------------------------------------------------------------------
(* Observations used by the properties *)

RECURSIVE ResultValues(_)
ResultValues(rs) ==
  IF rs = <<>> THEN <<>>
  ELSE (IF "value" \in DOMAIN Head(rs) THEN <<Head(rs).value>> ELSE <<>>)
       \o ResultValues(Tail(rs))

\* The event sequence: what next() has handed out, then what is buffered
Stream == ResultValues(nextResults) \o values

RECURSIVE OfType(_, _)
OfType(seq, t) ==
  IF seq = <<>> THEN <<>>
  ELSE (IF Head(seq).type = t THEN <<Head(seq)>> ELSE <<>>) \o OfType(Tail(seq), t)

RECURSIVE NotOfType(_, _)
NotOfType(seq, t) ==
  IF seq = <<>> THEN <<>>
  ELSE (IF Head(seq).type # t THEN <<Head(seq)>> ELSE <<>>) \o NotOfType(Tail(seq), t)

SessionIds(seq) ==
  [i \in DOMAIN OfType(seq, "session.started") |->
     OfType(seq, "session.started")[i].sessionId]

LastSessionId(seq) ==
  IF SessionIds(seq) = <<>> THEN initialSessionId(request)
  ELSE SessionIds(seq)[Len(SessionIds(seq))]

Completes(seq) == OfType(seq, "turn.complete")

IsResolved == completed.state = "resolved"
IsSettled == completed.state # "pending"

\* The events handed to emit from the process output, stderr aside: all of
\* offered but a synthetic terminal event
OutputEvents ==
  LET o == NotOfType(offered, "stderr") IN
  IF IsResolved /\ ~log.terminalObserved THEN SubSeq(o, 1, Len(o) - 1) ELSE o

Escalating(seq) == OfType(seq, "error") \o OfType(seq, "out_of_tokens")

-----------------------------------------------------------------------------
(* C1: in every state of a turn the event sequence holds at most one        *)
(* turn.started and at most one turn.complete.                              *)
C1_AtMostOneStartAndComplete ==
  /\ Len(OfType(Stream, "turn.started")) <= 1
  /\ Len(Completes(Stream)) <= 1

C1_Witness ==
  /\ IsResolved
  /\ Len(OfType(offered, "turn.started")) >= 2
  /\ Len(Completes(offered)) >= 2
  /\ stopRequested

(* C2: when completed has resolved, the completion record's sessionId is    *)
(* the id of the last session.started of the event sequence.                *)
C2_SessionIdIsLastSessionStarted ==
  IsResolved => completed.value.sessionId = LastSessionId(Stream)

C2_Witness ==
  /\ IsResolved
  /\ Len(SessionIds(Stream)) >= 2
  /\ completed.value.sessionId # initialSessionId(request)

(* C3: when a turn.complete was observed from the output, the completion    *)
(* record carries the reason of the turn.complete of the event sequence and *)
(* the exit code of the process, whatever was translated in between.        *)
C3_ReasonIsObservedTerminalReason ==
  (IsResolved /\ log.terminalObserved) =>
     /\ Completes(Stream) # <<>>
     /\ completed.value.reason = Completes(Stream)[1].reason
     /\ completed.value.exitCode = child.exitCode

(* C4: in conversation mode, a session record, a turn-start record and a    *)
(* text record followed by exit code 0 and no terminal record give reason   *)
(* error with exit code 0, one turn.complete{error}, and an error event     *)
(* that names the missing terminal event.                                   *)
C4_Scenario ==
  /\ request.mode = "conversation"
  /\ IsResolved /\ ~log.terminalObserved /\ ~log.stopAtSettle
  /\ child.exitCode = JN(0)
  /\ Len(OutputEvents) = 5
  /\ OutputEvents[1] = EvSession(initialSessionId(request))
  /\ OutputEvents[2] = EvTurnStarted
  /\ OutputEvents[3].type = "session.started"
  /\ OutputEvents[4] = EvTurnStarted
  /\ OutputEvents[5].type = "text.delta"

MentionsMissingTerminal(message) ==
  \E i \in DOMAIN message : message[i] = "without a terminal turn.complete event"

C4_ExitZeroWithoutTerminalIsError ==
  C4_Scenario =>
     /\ completed.value.reason = "error"
     /\ completed.value.exitCode = JN(0)
     /\ Completes(Stream) = <<EvComplete("error")>>
     /\ \E i \in DOMAIN Stream :
          Stream[i].type = "error" /\ MentionsMissingTerminal(Stream[i].message)

(* C5: a session record alone, then a non-zero exit code and no terminal    *)
(* record, give reason error, the exit code as observed, and exactly one    *)
(* turn.complete{error}.                                                    *)
C5_Scenario ==
  /\ request.mode = "conversation"
  /\ IsResolved /\ ~log.terminalObserved /\ ~log.stopAtSettle
  /\ child.exitCode # JNull /\ child.exitCode # JN(0)
  /\ Len(OutputEvents) \in {3, 4}
  /\ OutputEvents[1] = EvSession(initialSessionId(request))
  /\ OutputEvents[2] = EvTurnStarted
  /\ OutputEvents[3].type = "session.started"
  /\ Len(OutputEvents) = 4 => OutputEvents[4] = EvTurnStarted

C5_NonZeroExitWithoutTerminalIsError ==
  C5_Scenario =>
     /\ completed.value.reason = "error"
     /\ completed.value.exitCode = child.exitCode
     /\ Completes(Stream) = <<EvComplete("error")>>

C5_Witness == C5_Scenario /\ completed.value.exitCode = JN(7)

(* C6: when the output's one terminal record is a terminal-success record   *)
(* and the process exits with code 0 right after it, the reason is success  *)
(* and the event sequence holds exactly one turn.complete{success}.         *)
C6_Scenario ==
  /\ IsResolved /\ log.terminalObserved
  /\ child.exitCode = JN(0)
  /\ Completes(offered) = <<EvComplete("success")>>
  /\ OutputEvents[Len(OutputEvents)] = EvComplete("success")

C6_TerminalSuccessThenExitZero ==
  C6_Scenario =>
     /\ completed.value.reason = "success"
     /\ Completes(Stream) = <<EvComplete("success")>>

C6_Witness ==
  /\ C6_Scenario
  /\ Escalating(OutputEvents) # <<>>
  /\ Len(OfType(OutputEvents, "text.delta")) >= 1

(* C7: with stop() requested and no terminal record observed, the reason is *)
(* killed and the turn.complete of the event sequence carries killed,       *)
(* whatever reason was tracked; after a signal the exit code is null.       *)
C7_Scenario == IsResolved /\ log.stopAtSettle /\ ~log.terminalObserved

C7_StopWithoutTerminalIsKilled ==
  C7_Scenario =>
     /\ completed.value.reason = "killed"
     /\ Completes(Stream) = <<EvComplete("killed")>>
     /\ (child.signalCode # JNull => completed.value.exitCode = JNull)

C7_Witness ==
  /\ C7_Scenario
  /\ child.signalCode # JNull
  /\ log.signals = 1
  /\ OfType(OutputEvents, "out_of_tokens") # <<>>

C7_WitnessExitCode ==
  /\ C7_Scenario
  /\ child.exitCode = JN(7)
  /\ OfType(OutputEvents, "error") # <<>>

(* C8: with a turn.complete observed from the output and stop() requested,  *)
(* the reason is that terminal event's reason, and not killed.              *)
C8_TerminalBeatsStop ==
  (IsResolved /\ log.stopAtSettle /\ log.terminalObserved) =>
     /\ completed.value.reason # "killed"
     /\ Completes(Stream) # <<>>
     /\ completed.value.reason = Completes(Stream)[1].reason

(* C9: for a resumed turn whose output carries another session id, the      *)
(* event sequence has session.started with the resume id first and with the *)
(* provider id second, and the completion record and the sessionId promise  *)
(* carry the provider id.                                                   *)
C9_Scenario ==
  /\ request.resumeSessionId # Undefined
  /\ IsResolved
  /\ resolvedSessionId # initialSessionId(request)

C9_ResumeThenProviderSession ==
  C9_Scenario =>
     /\ Len(SessionIds(Stream)) >= 2
     /\ SessionIds(Stream)[1] = request.resumeSessionId.str
     /\ SessionIds(Stream)[2] # request.resumeSessionId.str
     /\ completed.value.sessionId = LastSessionId(Stream)
     /\ completed.value.sessionId # request.resumeSessionId.str
     /\ sessionId = Resolved(completed.value.sessionId)

C9_Witness ==
  /\ C9_Scenario
  /\ SessionIds(Stream) = <<<<"resume-thread">>, <<"thread-final">>>>
  /\ completed.value.sessionId = <<"thread-final">>
  /\ stdoutBuffer # <<>>

(* C10: once completed has settled the queue is closed and stays closed,    *)
(* and no step adds an event to the event sequence.                         *)
C10_NoEventAfterSettle ==
  [][IsSettled => (closed /\ closed' /\ Stream' = Stream)]_vars

C10_Witness ==
  /\ IsSettled
  /\ Len(offered) > log.offeredAtSettle
  /\ stopRequested

(* C11: when completed has resolved, the closed event sequence holds a      *)
(* turn.complete; when none came from the output, the last event of the     *)
(* sequence is a turn.complete carrying the inferred reason.                *)
C11_ResolvedTurnHasTerminalEvent ==
  IsResolved =>
     /\ closed
     /\ Completes(Stream) # <<>>
     /\ ~log.terminalObserved =>
          /\ Stream[Len(Stream)] = EvComplete(completed.value.reason)
          /\ completed.value.reason =
               IF log.stopAtSettle \/ completed.value.exitCode = JNull
                 THEN "killed"
               ELSE IF Escalating(OutputEvents) = <<>>
                 THEN (IF completed.value.exitCode = JN(0) THEN "success" ELSE "error")
               ELSE completionReason

C11_Witness ==
  /\ IsResolved /\ ~log.terminalObserved /\ ~log.stopAtSettle
  /\ completed.value.exitCode = JN(0)
  /\ completed.value.reason = "error"
  /\ Stream[Len(Stream)] = EvComplete("error")

IsRejected == completed.state = "rejected"

FailureEvents ==
  <<EvError(<<"Process failed: ", done.error>>),
    EvComplete(IF log.stopAtSettle THEN "killed" ELSE "error")>>

(* C12: on a transport failure completed is rejected with the error of the  *)
(* child and is never resolved; the handler has offered an error event and  *)
(* a turn.complete (killed after stop(), else error) to emit, the sequence  *)
(* holds the error event and exactly one turn.complete, the queue is closed *)
(* and the sessionId promise holds the id tracked at that moment.           *)
C12_TransportFailureRejects ==
  [][/\ (done'.state = "rejected" /\ done.state = "pending") =>
          /\ completed' = Rejected(done'.error)
          /\ sessionId' = Resolved(resolvedSessionId)
          /\ closed'
          /\ offered' = offered \o
               <<EvError(<<"Process failed: ", done'.error>>),
                 EvComplete(IF stopRequested' THEN "killed" ELSE "error")>>
          /\ Stream' = Stream \o
               <<EvError(<<"Process failed: ", done'.error>>)>> \o
               (IF completeEventSeen THEN <<>>
                ELSE <<EvComplete(IF stopRequested' THEN "killed" ELSE "error")>>)
          /\ Len(Completes(Stream')) = 1
     /\ IsRejected =>
          /\ completed' = completed /\ sessionId' = sessionId /\ done' = done
          /\ closed' /\ Stream' = Stream
     /\ done.state = "resolved" => completed'.state = "resolved"
    ]_vars

C12_Witness ==
  /\ IsRejected /\ completed.error = "spawn ENOENT"
  /\ Stream = <<EvSession(initialSessionId(request)), EvTurnStarted>> \o FailureEvents
  /\ ~log.stopAtSettle

C12_WitnessKilled ==
  /\ IsRejected /\ completed.error = "kill EPERM"
  /\ Stream[Len(Stream)] = EvComplete("killed")
  /\ Len(offered) > log.offeredAtSettle
  /\ resolvedSessionId # sessionId.value

\* What a call of onStdout must hand to emit for the complete lines it
\* frames, starting from the tracked session id
RECURSIVE LineOffers(_, _, _)
LineOffers(id, harness, lines) ==
  IF lines = <<>> THEN <<>>
  ELSE LET trimmed == Trim(Head(lines))
           json == JSONparse(trimmed)
           captured == captureSessionIdFromJson(harness, json)
           id2 == IF Truthy(captured) THEN captured.str ELSE id
       IN IF trimmed = <<>> THEN LineOffers(id, harness, Tail(lines))
          ELSE IF json = ParseError
            THEN <<ParseFailure(harness)>> \o LineOffers(id, harness, Tail(lines))
          ELSE (IF id2 # id THEN <<EvSession(id2)>> ELSE <<>>)
               \o parseJsonEvent(harness, json)
               \o LineOffers(id2, harness, Tail(lines))

\* The chunk a step takes from the pipe, and the lines it completes
ChunkTaken == toString(SubSeq(pipe, 1, Len(pipe) - Len(pipe')))
LinesCompleted ==
  SubSeq(Split(stdoutBuffer \o ChunkTaken), 1,
         Len(Split(stdoutBuffer \o ChunkTaken)) - 1)

(* C13: in conversation mode a call of onStdout offers to emit, for the     *)
(* complete lines of the buffer and chunk in order, one error event per     *)
(* line that is not JSON and, for every other non-blank line, its session   *)
(* id event and its translation; a bad line hides no later line.            *)
C13_BadLineDoesNotStopProcessing ==
  [][(request.mode = "conversation" /\ Len(pipe') < Len(pipe)) =>
        /\ Len(offered') >= Len(offered)
        /\ SubSeq(offered', 1, Len(offered)) = offered
        /\ SubSeq(offered', Len(offered) + 1, Len(offered')) =
             LineOffers(resolvedSessionId, request.harness, LinesCompleted)
        /\ stdoutBuffer' =
             Split(stdoutBuffer \o ChunkTaken)[Len(Split(stdoutBuffer \o ChunkTaken))]
    ]_vars

C13_Witness ==
  /\ request.harness = "codex" /\ request.mode = "conversation"
  /\ log.writes = 2 /\ pipe = <<>> /\ stdoutBuffer = <<>>
  /\ offered = <<EvSession(initialSessionId(request)), EvTurnStarted,
                 ParseFailure("codex"), EvSession(<<"thread-final">>)>>
  /\ Stream = offered

(* C14: the sessionId promise is pending exactly as long as completed is,   *)
(* and when completed has resolved it holds the sessionId of the completion *)
(* record.                                                                  *)
C14_SessionIdPromiseMatchesCompletion ==
  /\ sessionId.state = "pending" <=> completed.state = "pending"
  /\ sessionId.state # "rejected"
  /\ IsResolved => sessionId = Resolved(completed.value.sessionId)

C14_Witness ==
  /\ IsResolved
  /\ sessionId = Resolved(<<"thread-final">>)
  /\ request.resumeSessionId = Undefined
  /\ log.terminalObserved

(* C15: once the child has ended, completed eventually settles and the      *)
(* queue is closed; after the child's 'close' both already hold; a settled  *)
(* completed promise never changes again.                                   *)
C15_ClosedChildSettlesOnce ==
  /\ (~child.handle) ~> (IsSettled /\ closed)
  /\ [](child.closeEmitted => (IsSettled /\ closed))
  /\ [][IsSettled => completed' = completed]_vars

C15_Witness ==
  /\ child.closeEmitted
  /\ IsRejected /\ done = Rejected("kill EPERM")
  /\ child.exitCode = JN(0)
  /\ closed

HasPending(rs) == \E i \in DOMAIN rs : rs[i] = Pending
HasDone(rs) == \E i \in DOMAIN rs : rs[i] = DoneResult

(* C16: the values next() has returned followed by the values still         *)
(* buffered are exactly the values pushed while the queue was open, in push *)
(* order; no consumer waits while a value is buffered; end-of-sequence is   *)
(* reported only when the queue is closed and drained, and no value is      *)
(* returned to a call made after one that is still waiting or has ended.    *)
C16_QueueLosslessInOrder ==
  /\ Stream = log.accepted
  /\ HasPending(nextResults) => (values = <<>> /\ ~closed)
  /\ HasDone(nextResults) => (values = <<>> /\ closed)
  /\ \A i, j \in DOMAIN nextResults :
       (i < j /\ nextResults[i] \in {Pending, DoneResult}) =>
          nextResults[j] \in {Pending, DoneResult}
  /\ Len(waiters) = Cardinality({i \in DOMAIN nextResults : nextResults[i] = Pending})

C16_Witness ==
  /\ log.direct >= 1
  /\ Len(log.accepted) >= 2
  /\ values = <<>>
  /\ nextResults[Len(nextResults)] = DoneResult
  /\ ResultValues(nextResults) = log.accepted
  /\ log.accepted[1] # log.accepted[2]

(* C17: a close wakes every waiting consumer with end-of-sequence and       *)
(* leaves the buffered values; a second close changes nothing; a closed     *)
(* queue stays closed, drops every push, and answers next() with the        *)
(* buffered values in order and then with end-of-sequence.                  *)
C17_CloseIdempotentAndFinal ==
  [][/\ closed => closed'
     /\ closed' => (waiters' = <<>> /\ ~HasPending(nextResults'))
     /\ (~closed /\ log'.last = "close") =>
          /\ closed' /\ values' = values
          /\ nextResults' =
               [i \in DOMAIN nextResults |->
                  IF nextResults[i] = Pending THEN DoneResult ELSE nextResults[i]]
     /\ (closed /\ log'.last \in {"close", "push"}) => TS' = TS
     /\ (closed /\ log'.last = "next") =>
          IF values = <<>>
            THEN nextResults' = Append(nextResults, DoneResult) /\ values' = <<>>
            ELSE /\ nextResults' = Append(nextResults, ValueResult(Head(values)))
                 /\ values' = Tail(values)
    ]_vars

C17_Witness ==
  /\ closed
  /\ log.woken >= 2 /\ log.closes >= 2 /\ log.dropped >= 1
  /\ nextResults = <<DoneResult, DoneResult, DoneResult>>

-----------------------------------------------------------------------------
(* classifyError on its own, run.ts:153-165: a message is classified, and   *)
(* the message of each result is classified again.  log holds the message   *)
(* and the results in call order.                                           *)

MessageTokens ==
  {" ", "rate limit exceeded", "Out of tokens:", "unexpected token at line 4",
   "Unknown error"}

RECURSIVE SeqsUpTo(_, _)
SeqsUpTo(S, n) ==
  IF n = 0 THEN {<<>>}
  ELSE SeqsUpTo(S, n - 1) \cup
       {Append(s, x) : s \in {t \in SeqsUpTo(S, n - 1) : Len(t) = n - 1}, x \in S}

ClassifyInit ==
  /\ Idle
  /\ \E m \in SeqsUpTo(MessageTokens, MaxMessageLen) :
       log = [message |-> m, results |-> <<>>]

Classify ==
  /\ Len(log.results) < MaxCalls
  /\ log' = [log EXCEPT !.results =
               Append(@, classifyError(IF @ = <<>> THEN log.message
                                       ELSE @[Len(@)].message))]
  /\ OnlyLog

SpecClassify == ClassifyInit /\ [][Classify]_vars

Marker == <<"Out of tokens:", " ">>

(* C18: classifyError gives out_of_tokens for a message with a quota or     *)
(* rate-limit phrase, with the marker put before the trimmed message unless *)
(* it already starts with it; error with the trimmed message for any other  *)
(* non-blank message; error with "Unknown error" for a blank one; and       *)
(* classifying the message of a result gives the same result.               *)
C18_ClassifyError ==
  /\ classifyError(<<"rate limit exceeded">>).kind = "out_of_tokens"
  /\ classifyError(<<"unexpected token at line 4">>) =
       [kind |-> "error", message |-> <<"unexpected token at line 4">>]
  /\ classifyError(<<>>) = [kind |-> "error", message |-> <<"Unknown error">>]
  /\ log.results # <<>> =>
       LET t == Trim(log.message)
           r == log.results[1]
       IN /\ t = <<>> => r = [kind |-> "error", message |-> <<"Unknown error">>]
          /\ (t # <<>> /\ ~OUT_OF_TOKENS_PATTERN(t)) =>
               r = [kind |-> "error", message |-> t]
          /\ (t # <<>> /\ OUT_OF_TOKENS_PATTERN(t)) =>
               /\ r.kind = "out_of_tokens"
               /\ r.message = IF t[1] = "Out of tokens:" THEN t ELSE Marker \o t
               /\ SubSeq(r.message, 1, 1) = <<"Out of tokens:">>
  /\ \A i \in DOMAIN log.results : i > 1 => log.results[i] = log.results[1]

C18_Witness ==
  /\ Len(log.results) = 2
  /\ log.results[2].kind = "out_of_tokens"
  /\ log.message = <<" ", "rate limit exceeded", " ">>
  /\ log.results[2].message = Marker \o <<"rate limit exceeded">>

-----------------------------------------------------------------------------
(* Command building, build.ts and the harness configs.  An argument is an   *)
(* atom; an option that is undefined or the empty string is "" (the code    *)
(* tests options for truthiness only).  String operations are given on the  *)
(* model ids and session ids of the model.                                  *)

Absent == ""

ModelIds == {"opus", "gpt-5.3-codex-high", "gpt-5.3-codex-spark", "openai/gpt-5"}
SessionIdArgs == {"abc-123", "ses_1"}

\* part_002:49, 52
EFFORT_LEVELS == <<"medium", "high", "xhigh">>
STANDALONE_MODELS == {"gpt-5.3-codex-spark"}

\* modelId.endsWith(`-${effort}`)
EndsWithEffort(modelId, effort) ==
  <<modelId, effort>> \in {<<"gpt-5.3-codex-high", "high">>}

\* modelId.slice(0, -(effort.length + 1))
SliceOffEffort(modelId, effort) ==
  IF modelId = "gpt-5.3-codex-high" /\ effort = "high" THEN "gpt-5.3-codex"
  ELSE modelId

\* `reasoning.effort=${effort}`
ReasoningEffort(effort) ==
  CASE effort = "medium" -> "reasoning.effort=medium"
    [] effort = "high" -> "reasoning.effort=high"
    [] effort = "xhigh" -> "reasoning.effort=xhigh"
    [] OTHER -> "reasoning.effort="

\* f.startsWith('reasoning.effort=')
StartsWithReasoningEffort(f) ==
  f \in {"reasoning.effort=", "reasoning.effort=medium", "reasoning.effort=high",
         "reasoning.effort=xhigh"}

\* id.startsWith('ses_')
StartsWithSes(id) == id \in {"ses_1"}

\* modelId.startsWith('openai/') ? `opencode/${modelId.slice(7)}` : modelId
NormalizeOpenCodeModel(modelId) ==
  IF modelId = "openai/gpt-5" THEN "opencode/gpt-5" ELSE modelId

claudeConfig ==
  [name |-> "claude", binary |-> "claude", baseCmd |-> <<>>,
   bypassFlags |-> <<"--dangerously-skip-permissions">>,
   modelFlag |-> "--model", promptVia |-> "flag", promptFlag |-> "-p",
   promptSep |-> Absent, stdin |-> "prompt", stdout |-> "jsonl",
   cwdFlag |-> Absent, extraArgs |-> <<>>]

codexConfig ==
  [name |-> "codex", binary |-> "codex", baseCmd |-> <<"exec">>,
   bypassFlags |-> <<"--dangerously-bypass-approvals-and-sandbox",
                     "--skip-git-repo-check">>,
   modelFlag |-> "-m", promptVia |-> "cli-sep", promptFlag |-> Absent,
   promptSep |-> "--", stdin |-> "close", stdout |-> "jsonl",
   cwdFlag |-> "-C", extraArgs |-> <<>>]

opencodeConfig ==
  [name |-> "opencode", binary |-> "opencode", baseCmd |-> <<"run">>,
   bypassFlags |-> <<>>,
   modelFlag |-> "-m", promptVia |-> "cli-arg", promptFlag |-> Absent,
   promptSep |-> Absent, stdin |-> "close", stdout |-> Absent,
   cwdFlag |-> Absent, extraArgs |-> <<>>]

geminiConfig ==
  [name |-> "gemini", binary |-> "gemini", baseCmd |-> <<>>,
   bypassFlags |-> <<"--yolo">>,
   modelFlag |-> "-m", promptVia |-> "flag", promptFlag |-> "-p",
   promptSep |-> Absent, stdin |-> "close", stdout |-> "jsonl",
   cwdFlag |-> Absent, extraArgs |-> <<>>]

\* The function-valued fields of the configs; Has... tells whether the
\* config defines the field
HasSessionCreateFlags(config) == config.name = "claude"
sessionCreateFlags(config, id) == <<"--session-id", id>>

HasSessionResumeFlags(config) == TRUE
sessionResumeFlags(config, id) ==
  CASE config.name = "codex" -> <<"resume", id>>
    [] config.name = "opencode" ->
         IF StartsWithSes(id) THEN <<"--session", id, "--continue">> ELSE <<>>
    [] OTHER -> <<"--resume", id>>

HasDecomposeModel(config) == config.name \in {"codex", "opencode"}

RECURSIVE DecomposeFrom(_, _)
DecomposeFrom(modelId, i) ==
  IF i > Len(EFFORT_LEVELS) THEN <<"-m", modelId>>
  ELSE IF EndsWithEffort(modelId, EFFORT_LEVELS[i])
    THEN <<"-m", SliceOffEffort(modelId, EFFORT_LEVELS[i]),
           "-c", ReasoningEffort(EFFORT_LEVELS[i])>>
  ELSE DecomposeFrom(modelId, i + 1)

decomposeModel(config, modelId) ==
  IF config.name = "opencode" THEN <<"-m", NormalizeOpenCodeModel(modelId)>>
  ELSE IF modelId \in STANDALONE_MODELS THEN <<"-m", modelId>>
  ELSE DecomposeFrom(modelId, 1)

HasReasoningFlags(config) == config.name = "codex"
reasoningFlags(config, level) == <<"-c", ReasoningEffort(level)>>

registry ==
  [claude |-> claudeConfig, codex |-> codexConfig,
   opencode |-> opencodeConfig, gemini |-> geminiConfig]

\* geminiAliasPattern: /^gemini\d+$/
GeminiAliases == {"gemini1", "gemini2"}
canonicalizeHarness(name) == IF name \in GeminiAliases THEN "gemini" ELSE name

HarnessNames == Harnesses \cup GeminiAliases

getHarness(name) ==
  IF name # canonicalizeHarness(name)
    THEN [registry[canonicalizeHarness(name)] EXCEPT !.binary = name]
    ELSE registry[name]


\* Mutant of buildFromConfig: the session-create and working-directory
\* flags are added on resume too
buildFromConfigMutCreateOnResume(config, options) ==
  LET resuming == options.resume /\ options.sessionId # Absent
      modelFlags ==
        IF options.model = Absent THEN <<>>
        ELSE IF HasDecomposeModel(config) THEN decomposeModel(config, options.model)
        ELSE <<config.modelFlag, options.model>>
  IN [argv |->
        <<config.binary>> \o config.baseCmd
        \o (IF resuming /\ HasSessionResumeFlags(config)
              THEN sessionResumeFlags(config, options.sessionId) ELSE <<>>)
        \o (IF options.bypassPermissions THEN config.bypassFlags ELSE <<>>)
        \o (IF config.cwdFlag # Absent /\ options.cwd # Absent
              THEN <<config.cwdFlag, options.cwd>> ELSE <<>>)
        \o modelFlags
        \o (IF options.sessionId # Absent /\ HasSessionCreateFlags(config)
              THEN sessionCreateFlags(config, options.sessionId) ELSE <<>>)
        \o options.extraArgs,
      stdin |-> config.stdin, stdout |-> config.stdout,
      prompt |-> options.prompt]

\* build.ts:38-124
buildFromConfig(config, options) ==
  LET resuming == options.resume /\ options.sessionId # Absent
      modelFlags ==
        IF options.model = Absent THEN <<>>
        ELSE IF HasDecomposeModel(config) THEN decomposeModel(config, options.model)
        ELSE <<config.modelFlag, options.model>>
      modelHandledReasoning ==
        /\ options.model # Absent /\ HasDecomposeModel(config)
        /\ \E i \in DOMAIN modelFlags : StartsWithReasoningEffort(modelFlags[i])
  IN [argv |->
        <<config.binary>> \o config.baseCmd
        \o (IF resuming /\ HasSessionResumeFlags(config)
              THEN sessionResumeFlags(config, options.sessionId) ELSE <<>>)
        \o (IF options.bypassPermissions THEN config.bypassFlags ELSE <<>>)
        \o (IF ~resuming /\ config.cwdFlag # Absent /\ options.cwd # Absent
              THEN <<config.cwdFlag, options.cwd>> ELSE <<>>)
        \o modelFlags
        \o (IF options.reasoning # Absent /\ ~modelHandledReasoning
               /\ HasReasoningFlags(config)
              THEN reasoningFlags(config, options.reasoning) ELSE <<>>)
        \o (IF ~resuming /\ options.sessionId # Absent
               /\ HasSessionCreateFlags(config)
              THEN sessionCreateFlags(config, options.sessionId) ELSE <<>>)
        \o (IF options.prompt # Absent /\ config.stdin # "prompt"
              THEN CASE config.promptVia = "flag" ->
                          <<config.promptFlag, options.prompt>>
                     [] config.promptVia = "cli-arg" -> <<options.prompt>>
                     [] config.promptVia = "cli-sep" ->
                          <<config.promptSep, options.prompt>>
                     [] OTHER -> <<>>
              ELSE <<>>)
        \o config.extraArgs
        \o options.extraArgs,
      stdin |-> config.stdin, stdout |-> config.stdout,
      prompt |-> options.prompt]

\* build.ts:16-19
buildCommand(harness, options) == buildFromConfig(getHarness(harness), options)

BuildOptions ==
  [model : {Absent, "opus", "gpt-5.3-codex-high"},
   prompt : {Absent, "hello"},
   sessionId : {Absent} \cup SessionIdArgs,
   resume : BOOLEAN,
   cwd : {Absent, "/tmp/work"},
   bypassPermissions : BOOLEAN,
   reasoning : {Absent, "high"},
   extraArgs : {<<>>, <<"--verbose">>}]

\* buildCommand on its own: log holds the call and, once made, its result
BuildInit ==
  /\ Idle
  /\ \E h \in HarnessNames, o \in BuildOptions :
       log = [harness |-> h, options |-> o, called |-> FALSE]

Build ==
  /\ ~log.called
  /\ log' = [harness |-> log.harness, options |-> log.options, called |-> TRUE,
             spec |-> buildCommand(log.harness, log.options)]
  /\ OnlyLog

SpecBuild == BuildInit /\ [][Build]_vars

Includes(argv, a) == \E i \in DOMAIN argv : argv[i] = a

IsPrefix(p, s) == Len(p) <= Len(s) /\ SubSeq(s, 1, Len(p)) = p

(* C19: a command built with resume and a session id holds neither          *)
(* --session-id nor -C, and starts with the binary, the base subcommand and *)
(* then the harness's resume arguments.                                     *)
C19_ResumeCommand ==
  (log.called /\ log.options.resume /\ log.options.sessionId # Absent) =>
     LET argv == log.spec.argv
         id == log.options.sessionId
         h == canonicalizeHarness(log.harness)
     IN /\ ~Includes(argv, "--session-id")
        /\ ~Includes(argv, "-C")
        /\ IsPrefix(CASE h = "claude" -> <<"claude", "--resume", id>>
                      [] h = "codex" -> <<"codex", "exec", "resume", id>>
                      [] h = "gemini" -> <<log.harness, "--resume", id>>
                      [] h = "opencode" ->
                           IF id = "ses_1"
                             THEN <<"opencode", "run", "--session", id, "--continue">>
                             ELSE <<"opencode", "run">>,
                    argv)

C19_Witness ==
  /\ log.called /\ log.harness = "codex"
  /\ log.options.resume /\ log.options.cwd = "/tmp/work"
  /\ log.options.sessionId = "abc-123" /\ log.options.bypassPermissions
  /\ IsPrefix(<<"codex", "exec", "resume", "abc-123",
                "--dangerously-bypass-approvals-and-sandbox">>, log.spec.argv)

C19_WitnessClaude ==
  /\ log.called /\ log.harness = "claude" /\ log.options.resume
  /\ log.spec.argv = <<"claude", "--resume", "abc-123", "--model", "opus">>

(* C20: buildCommand('claude', options) with a prompt gives stdin 'prompt'  *)
(* and an argv that holds '-p' and the prompt after the model and session   *)
(* flags.                                                                   *)
C20_ClaudePromptFlag ==
  (log.called /\ log.harness = "claude" /\ log.options.prompt # Absent) =>
     LET argv == log.spec.argv IN
     /\ log.spec.stdin = "prompt"
     /\ \E i \in DOMAIN argv :
          /\ i < Len(argv)
          /\ argv[i] = "-p" /\ argv[i + 1] = log.options.prompt
          /\ \A j \in DOMAIN argv :
               argv[j] \in {"--model", "--session-id", "--resume"} => j < i

-----------------------------------------------------------------------------
(* The command executeCommand runs, run.ts:625-649 with buildModeExtraArgs. *)
(* An optional flag of the request is "true", "false" or Unset; a missing   *)
(* resumeSessionId is Unset, which `??` tells apart from the empty string.  *)

Unset == "undefined"

\* run.ts:181-217
buildModeExtraArgs(harness, mode, yolo, cwd, codexFullAuto) ==
  IF mode = "single-shot"
    THEN CASE harness = "claude" -> <<"-p", "--output-format", "text">>
           [] harness = "gemini" -> <<"--output-format", "text">>
           [] harness = "codex" ->
                IF codexFullAuto THEN <<"--full-auto">> ELSE <<>>
           [] harness = "opencode" -> <<>>
    ELSE CASE harness = "claude" ->
                <<"-p", "--verbose", "--output-format", "stream-json",
                  "--include-partial-messages">>
                \o (IF yolo
                      THEN <<"--permission-mode", "bypassPermissions",
                             "--tools", "default", "--add-dir", cwd>>
                      ELSE <<>>)
           [] harness = "codex" ->
                IF codexFullAuto THEN <<"--full-auto", "--json">> ELSE <<"--json">>
           [] harness = "gemini" -> <<"--output-format", "stream-json">>
           [] harness = "opencode" -> <<"--format", "json">>

\* Mutant of buildOptions: the bypass follows yolo alone
buildOptionsMutBypassWithFullAuto(req) ==
  LET yolo == req.yolo # "false"
      codexFullAuto == req.harness = "codex" /\ req.fullAuto = "true"
      initialId == IF req.resumeSessionId = Unset
                     THEN randomUUID.str[1] ELSE req.resumeSessionId
  IN [model |-> req.model,
      prompt |-> req.prompt,
      sessionId |-> initialId,
      resume |-> req.resumeSessionId \notin {Unset, Absent},
      cwd |-> req.cwd,
      bypassPermissions |-> yolo,
      reasoning |-> IF req.harness = "codex" THEN req.reasoningEffort
                    ELSE Absent,
      extraArgs |-> buildModeExtraArgs(req.harness, req.mode, yolo,
                                       req.cwd, codexFullAuto)]

\* run.ts:625-649
buildOptions(req) ==
  LET yolo == req.yolo # "false"
      codexFullAuto == req.harness = "codex" /\ req.fullAuto = "true"
      bypassPermissions == yolo /\ ~(req.harness = "codex" /\ codexFullAuto)
      initialId == IF req.resumeSessionId = Unset
                     THEN randomUUID.str[1] ELSE req.resumeSessionId
  IN [model |-> req.model,
      prompt |-> req.prompt,
      sessionId |-> initialId,
      resume |-> req.resumeSessionId \notin {Unset, Absent},
      cwd |-> req.cwd,
      bypassPermissions |-> bypassPermissions,
      reasoning |-> IF req.harness = "codex" THEN req.reasoningEffort
                    ELSE Absent,
      extraArgs |-> buildModeExtraArgs(req.harness, req.mode, yolo,
                                       req.cwd, codexFullAuto)]

\* run.ts:717 with run.ts:575: the spec of the handle
executeCommandSpec(req) == buildCommand(req.harness, buildOptions(req))

ExecuteCommandRequests ==
  [harness : Harnesses, mode : Modes,
   prompt : {"flag-check"}, cwd : {"/tmp/work"},
   model : {Absent, "gpt-5.3-codex-high"},
   resumeSessionId : {Unset, Absent, "thread-resume"},
   yolo : {Unset, "true", "false"},
   fullAuto : {Unset, "true", "false"},
   reasoningEffort : {Absent, "high"}]

\* executeCommand up to the spawn: log holds the request and, once built,
\* the spec
ExecInit ==
  /\ Idle
  /\ \E r \in ExecuteCommandRequests : log = [request |-> r, called |-> FALSE]

ExecBuild ==
  /\ ~log.called
  /\ log' = [request |-> log.request, called |-> TRUE,
             spec |-> executeCommandSpec(log.request)]
  /\ OnlyLog

SpecExec == ExecInit /\ [][ExecBuild]_vars

(* C21: for a codex request with fullAuto true, the command holds           *)
(* --full-auto and does not hold --dangerously-bypass-approvals-and-sandbox,*)
(* whatever yolo, mode and resumeSessionId are.                             *)
C21_FullAutoWithoutBypass ==
  (log.called /\ log.request.harness = "codex" /\ log.request.fullAuto = "true") =>
     /\ Includes(log.spec.argv, "--full-auto")
     /\ ~Includes(log.spec.argv, "--dangerously-bypass-approvals-and-sandbox")

C21_Witness ==
  /\ log.called /\ log.request.harness = "codex"
  /\ log.request.fullAuto = "true" /\ log.request.yolo = "true"
  /\ log.request.mode = "conversation"
  /\ log.request.resumeSessionId = "thread-resume"
  /\ IsPrefix(<<"codex", "exec", "resume", "thread-resume">>, log.spec.argv)
  /\ Includes(log.spec.argv, "--json")

-----------------------------------------------------------------------------
\* The reason the escalating events of a sequence leave tracked
TrackedAfter(seq) ==
  IF OfType(seq, "out_of_tokens") # <<>> THEN "out_of_tokens"
  ELSE IF OfType(seq, "error") # <<>> THEN "error"
  ELSE "success"

(* C22: the process exits with an exit code, no terminal event was observed *)
(* and no stop was requested: the reason is error when nothing escalated    *)
(* the tracked reason and the exit code is not 0, success when nothing      *)
(* escalated it and the exit code is 0, and the escalated reason otherwise. *)
C22_Scenario ==
  /\ IsResolved /\ ~log.terminalObserved /\ ~log.stopAtSettle
  /\ completed.value.exitCode # JNull

C22_WitnessCarriedError ==
  /\ C22_Scenario
  /\ completed.value.exitCode = JN(0)
  /\ TrackedAfter(OutputEvents) = "error"
  /\ completed.value.reason = "error"

-----------------------------------------------------------------------------
(* emit on its own (run.ts:654-668): the closure state of a turn under any  *)
(* sequence of emit calls.  log counts the calls and holds the last event.  *)

EmitEvents ==
  {EvSession(<<"s-1">>), EvTurnStarted, EvText(<<"a">>), EvStderr(<<"warn">>),
   EvOutOfTokens(<<"quota">>), EvError(<<"boom">>)}
  \cup {EvComplete(r) : r \in {"success", "error", "out_of_tokens", "killed"}}

EmitInit ==
  /\ Idle
  /\ log = [emits |-> 0, last |-> EvStderr(<<>>)]

Emit ==
  /\ log.emits < MaxEmits
  /\ \E event \in EmitEvents :
       /\ SetTS(emit(TS, event))
       /\ log' = [emits |-> log.emits + 1, last |-> event]
  /\ QueueRest

SpecEmit == EmitInit /\ [][Emit]_vars

(* C23 as stated: an error event escalates success to error and leaves any  *)
(* other tracked reason alone, an out_of_tokens event escalates to          *)
(* out_of_tokens, and once the tracked reason is not success no later event *)
(* brings it back to success.                                               *)
C23_EscalationIsMonotone ==
  [][/\ log'.last.type = "error" =>
          completionReason' =
            IF completionReason = "success" THEN "error" ELSE completionReason
     /\ log'.last.type = "out_of_tokens" => completionReason' = "out_of_tokens"
     /\ completionReason # "success" => completionReason' # "success"]_vars

(* C23, amended: the same rule for error and out_of_tokens events, and a    *)
(* tracked reason other than success is brought back to success by one      *)
(* event only, the first turn.complete, when its reason is success.         *)
C23_EscalationUntilTerminal ==
  [][/\ log'.last.type = "error" =>
          completionReason' =
            IF completionReason = "success" THEN "error" ELSE completionReason
     /\ log'.last.type = "out_of_tokens" => completionReason' = "out_of_tokens"
     /\ (completionReason # "success" /\ completionReason' = "success") <=>
          /\ completionReason # "success"
          /\ log'.last = EvComplete("success")
          /\ ~completeEventSeen]_vars

C23_Witness ==
  /\ log.emits = 3
  /\ OfType(offered, "error") # <<>>
  /\ log.last = EvComplete("success")
  /\ Len(Completes(offered)) = 1
  /\ completionReason = "success"


(* C24: the first turn.complete handed to emit is delivered and its reason  *)
(* recorded; every later one leaves the stream and the tracked reason as    *)
(* they were.                                                               *)
C24_OnlyFirstCompleteCounts ==
  [][log'.last.type = "turn.complete" =>
       /\ completeEventSeen'
       /\ IF completeEventSeen
            THEN /\ Stream' = Stream
                 /\ completionReason' = completionReason
            ELSE /\ Stream' = Append(Stream, log'.last)
                 /\ completionReason' = log'.last.reason]_vars

C24_Witness ==
  /\ log.last.type = "turn.complete"
  /\ Len(Completes(offered)) >= 2
  /\ Completes(Stream) = <<Completes(offered)[1]>>
  /\ log.last.reason \notin {completionReason, Completes(offered)[1].reason}

-----------------------------------------------------------------------------
\* The step in which 'close' settles the turn, and the fragment the line
\* framer still holds then
ClosesTurn == ~child.closeEmitted /\ child'.closeEmitted /\ done = PromisePending
Fragment == Trim(stdoutBuffer)

(* C25: at close in conversation mode a retained fragment that is not blank *)
(* is parsed once.  When it is not JSON nothing is reported: emit gets no   *)
(* event but the inferred turn.complete, and the session id and the reason  *)
(* follow from the state before the close.  When it is JSON, emit gets the  *)
(* events of that one record, once.                                         *)
C25_TrailingFragmentParsedOnceSilently ==
  [][(ClosesTurn /\ request.mode = "conversation" /\ Fragment # <<>>) =>
       LET bad == JSONparse(Fragment) = ParseError
           added == IF bad THEN <<>>
                    ELSE LineOffers(resolvedSessionId, request.harness,
                                    <<stdoutBuffer>>)
           seen == completeEventSeen \/ Completes(added) # <<>>
       IN /\ offered' =
               offered \o added
               \o (IF seen THEN <<>> ELSE <<EvComplete(completed'.value.reason)>>)
          /\ bad =>
               /\ completed'.value.sessionId = resolvedSessionId
               /\ completed'.value.reason =
                    IF completeEventSeen THEN completionReason
                    ELSE IF stopRequested \/ child.exitCode = JNull THEN "killed"
                    ELSE IF completionReason = "success" /\ child.exitCode # JN(0)
                      THEN "error"
                    ELSE completionReason]_vars

C25_Witness ==
  /\ IsResolved /\ request.mode = "conversation"
  /\ stdoutBuffer = <<"garbage">>
  /\ OfType(offered, "error") = <<>>
  /\ completed.value.reason = "success"
  /\ completed.value.sessionId = initialSessionId(request)
  /\ log.writes >= 2


\* What the translator makes of the retained fragment, and the session id
\* the fragment carries
FragmentEvents ==
  IF Fragment = <<>> \/ JSONparse(Fragment) = ParseError THEN <<>>
  ELSE parseJsonEvent(request.harness, JSONparse(Fragment))

FragmentSessionId ==
  IF Fragment = <<>> \/ JSONparse(Fragment) = ParseError THEN Undefined
  ELSE captureSessionIdFromJson(request.harness, JSONparse(Fragment))

(* C26: when the turn closes with a last line of stdout that has no newline *)
(* and holds a terminal record, and no terminal event came before, the      *)
(* events of that record are the last ones handed to emit (no turn.complete *)
(* is inferred after them), and the completion reason and the stream's      *)
(* turn.complete are the record's; when the line holds a session id that    *)
(* differs from the tracked one, that id is the completion's.               *)
C26_TrailingRecordHonoured ==
  [][(ClosesTurn /\ request.mode = "conversation") =>
       /\ (Completes(FragmentEvents) # <<>> /\ ~completeEventSeen) =>
            /\ Len(offered') >= Len(FragmentEvents)
            /\ SubSeq(offered', Len(offered') - Len(FragmentEvents) + 1,
                      Len(offered')) = FragmentEvents
            /\ Len(Completes(offered')) = 1
            /\ completed'.value.reason = Completes(FragmentEvents)[1].reason
            /\ Completes(Stream') = <<Completes(FragmentEvents)[1]>>
       /\ Truthy(FragmentSessionId) =>
            /\ completed'.value.sessionId = FragmentSessionId.str
            /\ LastSessionId(Stream') = FragmentSessionId.str]_vars

C26_Witness ==
  /\ IsResolved /\ request.harness = "codex" /\ request.mode = "conversation"
  /\ stdoutBuffer = <<"{turn.completed", "}">>
  /\ completed.value.exitCode = JN(7)
  /\ completed.value.reason = "success"
  /\ Completes(offered) = <<EvComplete("success")>>

C26_WitnessSession ==
  /\ IsResolved /\ request.harness = "codex"
  /\ stdoutBuffer = <<"{thread.started:thread-final", "}">>
  /\ completed.value.sessionId = <<"thread-final">>

-----------------------------------------------------------------------------
(* Chunking.  The process has written its whole output and exited before    *)
(* the first 'data' event; the transport then delivers the text in chunks   *)
(* of any sizes and the turn closes.  log holds the bytes, the number of    *)
(* chunks, whether a chunk ended inside a line and whether one ended inside *)
(* a character.                                                             *)

\* A text record whose text is the two bytes of U+00E9
WideBody(req) ==
  <<CASE req.harness = "codex" -> "{item.completed:agent_message:"
      [] req.harness = "claude" -> "{delta:text:"
      [] req.harness = "opencode" -> "{text:direct:"
      [] req.harness = "gemini" -> "{message:assistant:",
    LeadByte, ContinuationByte, "}">>

ChunkBodies(req) == Bodies(req) \cup {WideBody(req)}

\* Texts of up to n lines, each but the last one ended by a newline
RECURSIVE TextsOf(_, _)
TextsOf(req, n) ==
  IF n = 0 THEN {<<>>}
  ELSE {<<>>}
       \cup {b \o <<"\n">> \o t : b \in ChunkBodies(req), t \in TextsOf(req, n - 1)}
       \cup (IF n = 1 THEN ChunkBodies(req) ELSE {})

ChunksInit ==
  /\ request \in {r \in Requests : r.mode = "conversation"}
  /\ resolvedSessionId = StartedTS(request).resolvedSessionId
  /\ completionReason = StartedTS(request).completionReason
  /\ completeEventSeen = StartedTS(request).completeEventSeen
  /\ turnStartedSeen = StartedTS(request).turnStartedSeen
  /\ stdoutBuffer = StartedTS(request).stdoutBuffer
  /\ values = StartedTS(request).values
  /\ waiters = StartedTS(request).waiters
  /\ closed = StartedTS(request).closed
  /\ nextResults = StartedTS(request).nextResults
  /\ offered = StartedTS(request).offered
  /\ stopRequested = FALSE
  /\ \E code \in ExitCodes :
       child = [handle |-> FALSE, exitCode |-> code, signalCode |-> JNull,
                killed |-> FALSE, closeEmitted |-> FALSE]
  /\ pipe \in TextsOf(request, MaxLines) \ {<<>>}
  /\ done = PromisePending
  /\ completed = PromisePending
  /\ sessionId = PromisePending
  /\ log = [writes |-> 0, signals |-> 0, open |-> FALSE,
            terminalObserved |-> FALSE, offeredAtSettle |-> 0,
            stopAtSettle |-> FALSE,
            text |-> pipe, chunks |-> 0, midLine |-> FALSE, midChar |-> FALSE]

\* child.stdout 'data' with a chunk of n symbols
ChunkData ==
  /\ ~child.closeEmitted
  /\ \E n \in 1..Len(pipe) :
       /\ SetTS(onStdout(TS, request, SubSeq(pipe, 1, n)))
       /\ pipe' = SubSeq(pipe, n + 1, Len(pipe))
       /\ log' = [log EXCEPT !.chunks = @ + 1,
                             !.midLine = @ \/ (n < Len(pipe) /\ pipe[n] # "\n"),
                             !.midChar = @ \/ (n < Len(pipe) /\ pipe[n] = LeadByte)]
  /\ UNCHANGED <<request, stopRequested, child, done, completed, sessionId>>

SpecChunks == ChunksInit /\ [][ChunkData \/ ProcClose]_vars

\* The turn record and completion the same text gives as one chunk
OneChunk ==
  onDone(onStdout(StartedTS(request), request, log.text), request, FALSE,
         child.exitCode)

(* C27 as stated: in conversation mode, however the output is cut into      *)
(* chunks, the event sequence and the completion record are those the       *)
(* output gives as a single chunk.                                          *)
C27_ChunkingDoesNotMatter ==
  IsResolved =>
     /\ Stream = OneChunk.ts.values
     /\ offered = OneChunk.ts.offered
     /\ completed.value = OneChunk.completion

(* C27, amended: the same when no chunk ends inside a character; the cuts   *)
(* may fall anywhere else, inside a record too.                             *)
C27_ChunkingBetweenCharacters ==
  (IsResolved /\ ~log.midChar) =>
     /\ Stream = OneChunk.ts.values
     /\ offered = OneChunk.ts.offered
     /\ completed.value = OneChunk.completion

C27_Witness ==
  /\ IsResolved /\ log.chunks >= 3 /\ log.midLine /\ ~log.midChar
  /\ \E i \in DOMAIN Stream : Stream[i] = EvText(<<"U+00E9">>)
  /\ Stream = OneChunk.ts.values

\* A chunk ended inside a character, and the text delivered is not the text
\* written
C27_WitnessSplitCharacter ==
  /\ IsResolved /\ log.midChar
  /\ \E i \in DOMAIN Stream : Stream[i] = EvText(<<"U+FFFD", "U+FFFD">>)

-----------------------------------------------------------------------------
(* The session resolver on its own: decoded records are handed, one after   *)
(* the other, to the two steps every record goes through (run.ts:705-708).  *)
(* log counts the records and holds the last one.                           *)

HarnessKeys(h) ==
  CASE h = "codex" -> CodexKeys
    [] h = "claude" -> ClaudeKeys
    [] h = "opencode" -> OpenCodeKeys
    [] h = "gemini" -> GeminiKeys

\* The records of a turn and every record that carries a session id
ObservedKeys(h) ==
  TurnKeys(h)
  \cup {k \in HarnessKeys(h) : Truthy(captureSessionIdFromJson(h, JsonOf(k)))}
  \cup (IF h = "opencode"
          THEN {"{step_finish:tool_calls", "{step_finish:tool-calls",
                "{step_finish:none"}
          ELSE {})

\* The turn is in state t
IsTS(t) ==
  /\ resolvedSessionId = t.resolvedSessionId
  /\ completionReason = t.completionReason
  /\ completeEventSeen = t.completeEventSeen
  /\ turnStartedSeen = t.turnStartedSeen
  /\ stdoutBuffer = t.stdoutBuffer
  /\ values = t.values
  /\ waiters = t.waiters
  /\ closed = t.closed
  /\ nextResults = t.nextResults
  /\ offered = t.offered

RecordsInit ==
  /\ request \in {r \in Requests : r.mode = "conversation"}
  /\ IsTS(StartedTS(request))
  /\ stopRequested = FALSE
  /\ child = [handle |-> TRUE, exitCode |-> JNull, signalCode |-> JNull,
              killed |-> FALSE, closeEmitted |-> FALSE]
  /\ pipe = <<>>
  /\ done = PromisePending
  /\ completed = PromisePending
  /\ sessionId = PromisePending
  /\ log = [records |-> 0, last |-> JNull]

Observe ==
  /\ log.records < MaxRecords
  /\ \E k \in ObservedKeys(request.harness) :
       /\ SetTS(handleJson(TS, request.harness, JsonOf(k)))
       /\ log' = [records |-> log.records + 1, last |-> JsonOf(k)]
  /\ QueueRest

SpecRecords == RecordsInit /\ [][Observe]_vars

(* C28: a record gives a session.started event and a new tracked id exactly *)
(* when it carries a session id that is not the tracked one; so no two      *)
(* session.started events in a row carry the same id, and the tracked id is *)
(* the id of the last one.                                                  *)
C28_SessionResolver ==
  /\ [](/\ \A i \in 1..(Len(SessionIds(Stream)) - 1) :
             SessionIds(Stream)[i] # SessionIds(Stream)[i + 1]
        /\ resolvedSessionId = LastSessionId(Stream))
  /\ [][LET captured == captureSessionIdFromJson(request.harness, log'.last)
            started == OfType(Stream, "session.started")
        IN IF Truthy(captured) /\ captured.str # resolvedSessionId
             THEN /\ resolvedSessionId' = captured.str
                  /\ OfType(Stream', "session.started") =
                       Append(started, EvSession(captured.str))
             ELSE /\ resolvedSessionId' = resolvedSessionId
                  /\ OfType(Stream', "session.started") = started]_vars

C28_Witness ==
  /\ log.records = 3
  /\ Len(SessionIds(Stream)) = 3
  /\ captureSessionIdFromJson(request.harness, log.last) = JS(resolvedSessionId)
  /\ SessionIds(Stream)[1] = SessionIds(Stream)[3]

-----------------------------------------------------------------------------
(* The translators on their own: parseJsonEvent applied to a decoded        *)
(* record, which may be a record of another harness.  log holds the call    *)
(* and, once made, the events.                                              *)

TranslateInit ==
  /\ Idle
  /\ \E h \in Harnesses, k \in ObjKeys :
       log = [harness |-> h, json |-> JsonOf(k), called |-> FALSE]

Translate ==
  /\ ~log.called
  /\ log' = [harness |-> log.harness, json |-> log.json, called |-> TRUE,
             events |-> parseJsonEvent(log.harness, log.json)]
  /\ OnlyLog

SpecTranslate == TranslateInit /\ [][Translate]_vars

\* The field a translator dispatches on, and the values it knows
Discriminant(h, json) ==
  IF h = "opencode"
    THEN Coalesce(normalizeType(asString(Prop(json, "type"))),
                  normalizeType(asString(Prop(Prop(json, "part"), "type"))))
    ELSE asString(Prop(json, "type"))

Recognized(h) ==
  CASE h = "claude" -> {"system", "stream_event", "assistant", "result"}
    [] h = "codex" ->
         {"thread.started", "turn.started", "turn.completed", "turn.failed",
          "error", "item.started", "item.completed"}
    [] h = "opencode" ->
         {"step_start", "text", "tool_use", "tool", "step_finish", "done",
          "complete", "message_complete", "response_complete", "error"}
    [] h = "gemini" -> {"init", "message", "result"}

UnknownDiscriminant ==
  \A t \in Recognized(log.harness) : Discriminant(log.harness, log.json) # Str(t)

(* C29 as stated: a record whose discriminant the translator does not know  *)
(* gives no event, for each of the four translators.                        *)
C29_UnknownGivesNothing ==
  (log.called /\ UnknownDiscriminant) => log.events = <<>>

(* C29, amended: such a record gives no event with the claude, codex and    *)
(* gemini translators; with the opencode translator it gives one text.delta *)
(* when one of the places probed for assistant text holds text, and no      *)
(* event otherwise.                                                         *)
C29_UnknownGivesNothingOrText ==
  (log.called /\ UnknownDiscriminant) =>
     LET fallback == extractOpenCodeAssistantText(log.json) IN
     log.events = IF log.harness = "opencode" /\ Truthy(fallback)
                    THEN <<EvText(fallback.str)>>
                    ELSE <<>>

C29_Witness ==
  /\ log.called /\ UnknownDiscriminant
  /\ log.harness = "opencode"
  /\ Prop(log.json, "type") = Str("future_event")
  /\ log.events = <<EvText(<<"hello">>)>>

C29_WitnessNothing ==
  /\ log.called /\ UnknownDiscriminant
  /\ log.harness = "codex"
  /\ Prop(log.json, "text") = Str("hello")
  /\ log.events = <<>>


\* The failure records: a result that is not a success, a failed turn or
\* step, and the explicit error records of codex and opencode
IsFailedResult ==
  \/ /\ log.harness = "claude"
     /\ Discriminant("claude", log.json) = Str("result")
     /\ asString(Prop(log.json, "subtype")) # Str("success")
  \/ /\ log.harness = "gemini"
     /\ Discriminant("gemini", log.json) = Str("result")
     /\ asString(Prop(log.json, "status")) # Str("success")
  \/ /\ log.harness = "codex"
     /\ Discriminant("codex", log.json) = Str("turn.failed")
  \/ /\ log.harness = "opencode"
     /\ Discriminant("opencode", log.json) = Str("step_finish")
     /\ \E r \in OpenCodeFailureReasons :
          normalizeType(Coalesce(asString(Prop(Prop(log.json, "part"), "reason")),
                                 asString(Prop(log.json, "reason")))) = Str(r)

IsErrorRecord ==
  /\ log.harness \in {"codex", "opencode"}
  /\ Discriminant(log.harness, log.json) = Str("error")

\* One classified event, and one followed by the turn.complete of its kind
ClassifiedAlone(events) ==
  Len(events) = 1 /\ events[1].type \in {"out_of_tokens", "error"}

ClassifiedThenComplete(events) ==
  /\ Len(events) = 2
  /\ events[1].type \in {"out_of_tokens", "error"}
  /\ events[2] = EvComplete(events[1].type)

(* C30 as stated: each failure record, the explicit error records of codex  *)
(* and opencode included, gives the classified event followed by a          *)
(* turn.complete whose reason is the classification.                        *)
C30_FailureRecordIsTerminal ==
  (log.called /\ (IsFailedResult \/ IsErrorRecord)) =>
     ClassifiedThenComplete(log.events)

(* C30, amended: a result that is not a success, a codex turn.failed and an *)
(* opencode step_finish with a failure reason give the classified event     *)
(* followed by the turn.complete of its kind; an error record of codex or   *)
(* opencode gives the classified event alone.                               *)
C30_FailedResultIsTerminal ==
  log.called =>
     /\ IsFailedResult => ClassifiedThenComplete(log.events)
     /\ IsErrorRecord => ClassifiedAlone(log.events)

C30_Witness ==
  /\ log.called /\ log.harness = "codex" /\ IsFailedResult
  /\ log.events[1].type = "out_of_tokens"
  /\ log.events[2] = EvComplete("out_of_tokens")

C30_WitnessErrorRecord ==
  /\ log.called /\ log.harness = "opencode" /\ IsErrorRecord
  /\ Len(log.events) = 1 /\ log.events[1].type = "out_of_tokens"

-----------------------------------------------------------------------------
\* The reason of an opencode step_finish record, normalised; Undefined for
\* any other record
StepFinishReason(h, json) ==
  IF h = "opencode" /\ Discriminant(h, json) = Str("step_finish")
    THEN LET r == normalizeType(Coalesce(asString(Prop(Prop(json, "part"), "reason")),
                                         asString(Prop(json, "reason"))))
         IN IF r = Undefined THEN Str("") ELSE r
    ELSE Undefined

IsPause(h, json) == StepFinishReason(h, json) = Str("tool_calls")

IsSuccessfulFinish(h, json) ==
  /\ StepFinishReason(h, json) # Undefined
  /\ ~IsPause(h, json)
  /\ \A r \in OpenCodeFailureReasons : StepFinishReason(h, json) # Str(r)

(* C31: an opencode step_finish whose reason is the tool-calls pause hands  *)
(* nothing to emit and leaves the turn as it was, not terminal; a           *)
(* step_finish with a non-failure reason, after a pause too, gives the      *)
(* turn.complete{success} of a turn that has none yet.                      *)
C31_PauseIsNotTerminal ==
  [][/\ IsPause(request.harness, log'.last) =>
          /\ offered' = offered /\ Stream' = Stream
          /\ completeEventSeen' = completeEventSeen
          /\ completionReason' = completionReason
     /\ (IsSuccessfulFinish(request.harness, log'.last) /\ ~completeEventSeen) =>
          /\ Stream' = Append(Stream, EvComplete("success"))
          /\ completeEventSeen']_vars

\* A pause, then a step_finish with reason stop: offered holds no call from
\* the first record
C31_Witness ==
  /\ request.harness = "opencode" /\ request.resumeSessionId = Undefined
  /\ log.records = 2
  /\ log.last = JsonOf("{step_finish:stop")
  /\ offered = <<EvSession(initialSessionId(request)), EvTurnStarted,
                 EvComplete("success")>>
  /\ Stream = offered

-----------------------------------------------------------------------------
\* The process has ended, with an exit code or by a signal
Exited == ~child.handle

(* C32: stop() always sets the cancellation flag; it sends a signal only to *)
(* a process that has not exited and has not been signalled before, so at   *)
(* most one signal is sent over any number of calls and none after the      *)
(* process has exited.                                                      *)
C32_AtMostOneSignal ==
  /\ [](log.signals <= 1 /\ (log.signals = 1 => stopRequested /\ child.killed))
  /\ [][Stop =>
          /\ stopRequested'
          /\ log'.signals > log.signals =>
               /\ ~Exited /\ child.exitCode = JNull /\ ~child.killed
               /\ child'.killed]_vars

\* stop() has sent the one signal, and the process has ended since
C32_Witness ==
  /\ stopRequested /\ log.signals = 1 /\ child.killed
  /\ Exited /\ child.closeEmitted
  /\ completed # PromisePending /\ completed.state = "resolved"
  /\ completed.value.reason = "killed"

-----------------------------------------------------------------------------
\* What a settled turn has changed: the queue, the two promises
Settlement == <<closed, completed, sessionId>>

\* What emit and the output handlers change
TurnFrame ==
  <<offered, values, waiters, nextResults, resolvedSessionId, completionReason,
    completeEventSeen, turnStartedSeen, stdoutBuffer>>

\* After a stop() the turn resolves at the close of the child
ResolvesAtCloseAfterStop ==
  (ClosesTurn /\ stopRequested) =>
     /\ completed'.state = "resolved"
     /\ completed'.value.exitCode = child.exitCode
     /\ sessionId'.state = "resolved" /\ closed'

C33_WitnessResolved ==
  /\ stopRequested /\ log.signals = 1 /\ child.closeEmitted
  /\ child.exitCode = JNull
  /\ completed # PromisePending /\ completed.state = "resolved"
  /\ completed.value.exitCode = JNull
  /\ closed /\ sessionId # PromisePending

-----------------------------------------------------------------------------
(* Standard input after the spawn, run.ts:590-598.  The calls made on       *)
(* child.stdin are recorded in order.                                       *)

\* types.ts:36
StdinBehaviors == {"close", "prompt", "pipe"}

StdinWrite(data) == <<"write", data>>
StdinEnd == <<"end">>

\* Mutant of deliverStdin: stdin is ended before the prompt is written
deliverStdinMutEndsFirst(spec, hasStdin) ==
  IF hasStdin
    THEN (IF spec.stdin # "pipe" THEN <<StdinEnd>> ELSE <<>>)
         \o (IF spec.stdin = "prompt" /\ spec.prompt # Absent
               THEN <<StdinWrite(spec.prompt)>> ELSE <<>>)
    ELSE <<>>

\* run.ts:591-598: the calls runCommand makes on child.stdin
deliverStdin(spec, hasStdin) ==
  IF hasStdin
    THEN (IF spec.stdin = "prompt" /\ spec.prompt # Absent
            THEN <<StdinWrite(spec.prompt)>> ELSE <<>>)
         \o (IF spec.stdin # "pipe" THEN <<StdinEnd>> ELSE <<>>)
    ELSE <<>>

\* The options of the specs whose standard input is observed
StdinOptions == {o \in BuildOptions : o.reasoning = Absent /\ o.extraArgs = <<>>}

\* runCommand up to its return: the spec is built from a harness config with
\* any of the three behaviours (the built-in configs have 'prompt' and
\* 'close'); stdio[0] is 'pipe' (run.ts:584), so child.stdin is a stream
StdinInit ==
  /\ Idle
  /\ \E h \in HarnessNames, o \in StdinOptions, s \in StdinBehaviors :
       log = [spec |-> buildFromConfig([getHarness(h) EXCEPT !.stdin = s], o),
              spawned |-> FALSE, stdinCalls |-> <<>>]

Spawned ==
  /\ ~log.spawned
  /\ log' = [log EXCEPT !.spawned = TRUE,
                        !.stdinCalls = deliverStdin(log.spec, TRUE)]
  /\ OnlyLog

SpecStdin == StdinInit /\ [][Spawned]_vars

(* C34: after the spawn, for 'close' stdin is ended with nothing written;   *)
(* for 'prompt' the prompt, if not empty, is written and then stdin is      *)
(* ended, in that order; for 'pipe' stdin is neither written nor ended.     *)
C34_StdinDelivery ==
  log.spawned =>
    CASE log.spec.stdin = "close" -> log.stdinCalls = <<StdinEnd>>
      [] log.spec.stdin = "prompt" ->
           IF log.spec.prompt # Absent
             THEN log.stdinCalls = <<StdinWrite(log.spec.prompt), StdinEnd>>
             ELSE log.stdinCalls = <<StdinEnd>>
      [] log.spec.stdin = "pipe" -> log.stdinCalls = <<>>

\* claude with a prompt: written, then ended, and not in argv
C34_Witness ==
  /\ log.spawned /\ log.spec.stdin = "prompt" /\ log.spec.prompt = "hello"
  /\ log.stdinCalls = <<StdinWrite("hello"), StdinEnd>>
  /\ ~Includes(log.spec.argv, "hello")

\* A spec that leaves stdin to the caller
C34_WitnessPipe ==
  /\ log.spawned /\ log.spec.stdin = "pipe" /\ log.spec.prompt = "hello"
  /\ log.stdinCalls = <<>>

-----------------------------------------------------------------------------
\* The turn record without the stderr events
WithoutStderr(ts) ==
  [ts EXCEPT !.values = NotOfType(@, "stderr"),
             !.offered = NotOfType(@, "stderr")]

\* The turn record after a stderr chunk arrives now
AfterStderr == onStderr(TS, <<"warn">>)

\* The outcomes the close of the child can report in this state
CloseCodes == IF child.handle THEN ExitCodes \cup {JNull} ELSE {child.exitCode}

(* C35: a stderr chunk is handed to emit as one stderr event, delivered     *)
(* while the queue is open, and changes nothing else of the turn; whatever  *)
(* stdout chunk or close of the child comes next, the events other than     *)
(* stderr and the completion record are those obtained without the chunk.   *)
C35_StderrDoesNotInterfere ==
  /\ AfterStderr.offered = Append(offered, EvStderr(<<"warn">>))
  /\ AfterStderr.values =
       IF closed THEN values ELSE Append(values, EvStderr(<<"warn">>))
  /\ [AfterStderr EXCEPT !.offered = offered, !.values = values] = TS
  /\ ~child.closeEmitted =>
       \A n \in 0..Len(pipe) :
          WithoutStderr(onStdout(AfterStderr, request, SubSeq(pipe, 1, n)))
            = WithoutStderr(onStdout(TS, request, SubSeq(pipe, 1, n)))
  /\ done = PromisePending =>
       \A code \in CloseCodes :
          /\ onDone(AfterStderr, request, stopRequested, code).completion
               = onDone(TS, request, stopRequested, code).completion
          /\ WithoutStderr(onDone(AfterStderr, request, stopRequested, code).ts)
               = WithoutStderr(onDone(TS, request, stopRequested, code).ts)

\* stderr between the records of a turn that has resolved
C35_Witness ==
  /\ IsResolved /\ Len(offered) >= 5
  /\ offered[3].type = "stderr" /\ offered[4].type # "stderr"
  /\ offered[Len(offered)].type = "turn.complete"
  /\ \E i \in 5..Len(offered) : offered[i].type = "stderr"
  /\ Stream = offered

-----------------------------------------------------------------------------
\* The event types C36 names
ContentTypes == {"text.delta", "tool.use", "session.started", "error", "out_of_tokens"}

(* C36 as stated: once turn.complete is in the event stream, no text.delta, *)
(* tool.use, session.started, error or out_of_tokens event follows it.      *)
C36_NothingAfterTerminal ==
  \A i, j \in DOMAIN Stream :
     (i < j /\ Stream[i].type = "turn.complete") => Stream[j].type \notin ContentTypes

(* C36, amended: after the turn.complete of the stream no turn.complete and *)
(* no turn.started follows; events of the other types follow it while the   *)
(* process goes on writing after its terminal record, and only then: a      *)
(* turn.complete inferred at the exit is the last event of a resolved turn. *)
C36_OnlyStartAndTerminalStopAtTerminal ==
  \A i \in DOMAIN Stream :
     Stream[i].type = "turn.complete" =>
       /\ \A j \in (i + 1)..Len(Stream) :
             Stream[j].type \notin {"turn.complete", "turn.started"}
       /\ (IsResolved /\ ~log.terminalObserved) => i = Len(Stream)

\* A resolved turn whose stream goes on after its turn.complete
C36_Witness ==
  /\ IsResolved /\ log.terminalObserved
  /\ \E i \in DOMAIN Stream :
       /\ Stream[i].type = "turn.complete"
       /\ i < Len(Stream)
       /\ Stream[i + 1].type \in ContentTypes

-----------------------------------------------------------------------------
(* C37: the stream of every turn starts with session.started carrying the  *)
(* initial session id and then turn.started, ahead of every event derived   *)
(* from the output of the process; a turn-begin record of the agent is      *)
(* handed to emit and dropped, so no second turn.started is delivered.      *)
C37_StreamStartsWithSessionAndTurn ==
  /\ Len(Stream) >= 2 /\ Len(offered) >= 2
  /\ Stream[1] = EvSession(initialSessionId(request))
  /\ Stream[2] = EvTurnStarted
  /\ offered[1] = Stream[1] /\ offered[2] = Stream[2]
  /\ \A j \in 3..Len(Stream) : Stream[j].type # "turn.started"
  /\ request.resumeSessionId # Undefined =>
       Stream[1].sessionId = request.resumeSessionId.str

\* codex has written its turn.started record and more: emit was called with
\* a second turn.started, the stream holds one
C37_Witness ==
  /\ request.harness = "codex" /\ request.resumeSessionId # Undefined
  /\ \E j \in 3..Len(offered) :
       /\ offered[j] = EvTurnStarted
       /\ j < Len(offered) /\ offered[j + 1].type = "text.delta"
  /\ Len(OfType(Stream, "turn.started")) = 1
  /\ Len(Stream) = Len(offered) - 1

-----------------------------------------------------------------------------
(* Single-shot mode.  The process has written one or two lines, which may   *)
(* be records of its protocol; the transport delivers them in chunks of any *)
(* sizes, empty ones too, while stop() may be called and the process ends.  *)
(* log.chunkTexts holds the texts of the non-empty chunks in arrival order. *)

SingleShotBodies(req) ==
  {<<k, "}">> : k \in TurnKeys(req.harness)} \cup {<<"garbage">>, <<"hello">>}

SingleShotTexts(req) ==
  {b \o <<"\n">> : b \in SingleShotBodies(req)}
  \cup {b \o <<"\n">> \o c : b, c \in SingleShotBodies(req)}

SingleShotInit ==
  /\ request \in {r \in Requests : r.mode = "single-shot"}
  /\ IsTS(StartedTS(request))
  /\ stopRequested = FALSE
  /\ child = [handle |-> TRUE, exitCode |-> JNull, signalCode |-> JNull,
              killed |-> FALSE, closeEmitted |-> FALSE]
  /\ pipe \in SingleShotTexts(request)
  /\ done = PromisePending
  /\ completed = PromisePending
  /\ sessionId = PromisePending
  /\ log = [writes |-> 0, signals |-> 0, open |-> FALSE,
            terminalObserved |-> FALSE, offeredAtSettle |-> 0,
            stopAtSettle |-> FALSE, chunkTexts |-> <<>>]

\* child.stdout 'data' with a chunk of n symbols
SingleShotData ==
  /\ ~child.closeEmitted
  /\ \E n \in 0..Len(pipe) :
       /\ SetTS(onStdout(TS, request, SubSeq(pipe, 1, n)))
       /\ pipe' = SubSeq(pipe, n + 1, Len(pipe))
       /\ log' = [log EXCEPT !.chunkTexts =
                    IF n = 0 THEN @ ELSE Append(@, toString(SubSeq(pipe, 1, n)))]
  /\ UNCHANGED <<request, stopRequested, child, done, completed, sessionId>>

SpecSingleShot ==
  SingleShotInit
  /\ [][SingleShotData \/ Stop \/ ProcExit \/ ProcSignalled \/ ProcClose]_vars

\* One text.delta per text
TextDeltas(texts) == [i \in DOMAIN texts |-> EvText(texts[i])]

\* The reason single-shot mode infers at the exit
SingleShotReason ==
  IF log.stopAtSettle \/ child.exitCode = JNull THEN "killed"
  ELSE IF child.exitCode # JN(0) THEN "error"
  ELSE "success"

(* C38: in single-shot mode the calls of emit made for stdout are one       *)
(* text.delta per non-empty chunk, with the chunk's text, in arrival order, *)
(* whatever the output holds; no session id, error or terminal event comes  *)
(* from stdout and nothing is buffered; a resolved turn ends with the       *)
(* turn.complete whose reason is inferred at the exit: killed after a       *)
(* stop() or without an exit code, error for a non-zero code, else success. *)
C38_SingleShotPassesTextThrough ==
  LET started == StartedTS(request).offered
      texts == started \o TextDeltas(log.chunkTexts)
  IN /\ stdoutBuffer = <<>>
     /\ resolvedSessionId = initialSessionId(request)
     /\ completed = PromisePending =>
          /\ offered = texts
          /\ ~completeEventSeen /\ completionReason = "success"
     /\ IsResolved =>
          /\ ~log.terminalObserved
          /\ completed.value.reason = SingleShotReason
          /\ completed.value.sessionId = initialSessionId(request)
          /\ \E k \in 0..Len(log.chunkTexts) :
               /\ offered = started
                     \o TextDeltas(SubSeq(log.chunkTexts, 1, k))
                     \o <<EvComplete(SingleShotReason)>>
                     \o TextDeltas(SubSeq(log.chunkTexts, k + 1, Len(log.chunkTexts)))
               /\ Stream = SubSeq(offered, 1, 3 + k)

\* A terminal record and a bad line were delivered as text, split inside
\* the record, and the turn resolved by its exit code
C38_Witness ==
  /\ IsResolved /\ request.harness = "claude"
  /\ Len(log.chunkTexts) = 3
  /\ log.chunkTexts[1] = <<"{result:boom">>
  /\ log.chunkTexts[2] = <<"}", "\n">>
  /\ log.chunkTexts[3] = <<"garbage">>
  /\ completed.value.reason = "success" /\ completed.value.exitCode = JN(0)
  /\ Stream = StartedTS(request).offered \o TextDeltas(log.chunkTexts)
                \o <<EvComplete("success")>>

\* The same with stop() and a non-zero exit code
C38_WitnessKilled ==
  /\ IsResolved /\ stopRequested /\ log.stopAtSettle
  /\ completed.value.exitCode = JN(7) /\ completed.value.reason = "killed"
  /\ \E i \in DOMAIN log.chunkTexts : log.chunkTexts[i] = <<"{turn.completed", "}", "\n">>

-----------------------------------------------------------------------------
\* The positions of the events of one type among the calls of emit
PositionsOf(t) == {i \in DOMAIN offered : offered[i].type = t}

BothEscalations == PositionsOf("error") # {} /\ PositionsOf("out_of_tokens") # {}

(* C39: with both an error and an out_of_tokens event emitted, in either    *)
(* order, the reason tracked before any terminal event is out_of_tokens,    *)
(* and a process that then exits with an exit code, without terminal event  *)
(* and without stop(), completes with out_of_tokens.                        *)
C39_OutOfTokensBeatsError ==
  /\ (BothEscalations /\ ~completeEventSeen) => completionReason = "out_of_tokens"
  /\ (BothEscalations /\ C22_Scenario) =>
        /\ completed.value.reason = "out_of_tokens"
        /\ Completes(Stream) = <<EvComplete("out_of_tokens")>>
        /\ offered[Len(offered)] = EvComplete("out_of_tokens")

\* error first, then out_of_tokens, and exit code 7
C39_Witness ==
  /\ BothEscalations /\ C22_Scenario
  /\ \A i \in PositionsOf("error"), j \in PositionsOf("out_of_tokens") : i < j
  /\ completed.value.exitCode = JN(7)
  /\ completed.value.reason = "out_of_tokens"

\* out_of_tokens first, then error, and exit code 0
C39_WitnessErrorLast ==
  /\ BothEscalations /\ C22_Scenario
  /\ \A i \in PositionsOf("error"), j \in PositionsOf("out_of_tokens") : j < i
  /\ completed.value.exitCode = JN(0)
  /\ completed.value.reason = "out_of_tokens"

-----------------------------------------------------------------------------
(* C40: the queue never holds buffered values and waiting consumers at the  *)
(* same time; once closed it has no waiter, and it never gets one: a next() *)
(* on a closed queue without buffered value is answered at once with        *)
(* end-of-sequence and registers nothing.                                   *)
C40_BufferOrWaitersAndNoneAfterClose ==
  /\ [](/\ values = <<>> \/ waiters = <<>>
        /\ closed => waiters = <<>>)
  /\ [][(closed /\ values = <<>> /\ log'.last = "next") =>
          /\ Len(nextResults') = Len(nextResults) + 1
          /\ nextResults'[Len(nextResults')] = DoneResult
          /\ waiters' = <<>> /\ values' = <<>>]_vars

\* A consumer waited and was woken by the close; a next() after the close
\* got the end at once
C40_Witness ==
  /\ closed /\ log.woken >= 1 /\ log.last = "next"
  /\ Len(nextResults) >= 2
  /\ nextResults[Len(nextResults)] = DoneResult
  /\ nextResults[1] = DoneResult
  /\ waiters = <<>> /\ values = <<>>

\* Values are buffered and no consumer waits
C40_WitnessBuffered ==
  /\ Len(values) >= 2 /\ waiters = <<>> /\ ~closed
  /\ nextResults # <<>>

=============================================================================
